---- MODULE Spec2Model ----
(***************************************************************************)
(* A model of justmyresource.core.ResourceRegistry: construction, the      *)
(* adapter that loads the entry points, the one-time discovery pass that   *)
(* builds the pack table, the prefix table and the collision ledger, name  *)
(* resolution over those tables, the query operations, the generators that *)
(* list_packs() and list_resources() return, and what a caller can do to   *)
(* the dicts that get_prefix_map() and get_prefix_collisions() return.     *)
(*                                                                         *)
(* A string is a sequence of one-character strings, so that lower(),       *)
(* rsplit(":"), "/" in s and the ordering used by sort() are computed      *)
(* character by character as Python computes them.                         *)
(***************************************************************************)
EXTENDS Integers, Sequences, FiniteSets, TLC

----------------------------------------------------------------------------
(* Bounds of the model *)

\* the adapter yields at most this many tuples
MaxEntries == 2
\* the user prefix map holds at most this many entries
MaxOverrides == 2
\* threads that use one fresh registry concurrently (specification ThreadSpec)
NumThreads == 2
\* the adapter yields at most this many tuples where only the tables are examined
\* (specification TablesSpec): one for each qualified name
MaxTableEntries == 3

----------------------------------------------------------------------------
(* Strings *)

\* ord(c) of the characters the model uses
Ord(c) ==
    CASE c = "/" -> 47
      [] c = ":" -> 58
      [] c = "B" -> 66
      [] c = "P" -> 80
      [] c = "Q" -> 81
      [] c = "X" -> 88
      [] c = "a" -> 97
      [] c = "b" -> 98
      [] c = "p" -> 112
      [] c = "q" -> 113
      [] c = "r" -> 114
      [] c = "s" -> 115
      [] c = "x" -> 120
      [] c = "z" -> 122

\* str.lower() on one character
LowerChar(c) ==
    CASE c = "B" -> "b"
      [] c = "P" -> "p"
      [] c = "Q" -> "q"
      [] c = "X" -> "x"
      [] OTHER -> c

\* str.lower()
Lower(s) == [i \in 1..Len(s) |-> LowerChar(s[i])]

\* c in s, for a character c
Contains(s, c) == \E i \in 1..Len(s) : s[i] = c

\* s < t in Python's string order (code points, then length)
StrLess(s, t) ==
    \E i \in 1..(Len(t)) :
        /\ i <= Len(s) + 1
        /\ \A j \in 1..(i - 1) : s[j] = t[j]
        /\ (i = Len(s) + 1 \/ Ord(s[i]) < Ord(t[i]))

\* name.split(":", 1): <<before, after>> the first colon
RSplit_FirstColon(name) ==
    LET i == CHOOSE k \in 1..Len(name) :
                 name[k] = ":" /\ \A j \in 1..(k - 1) : name[j] /= ":"
    IN  <<SubSeq(name, 1, i - 1), SubSeq(name, i + 1, Len(name))>>

\* name.rsplit(":", 1) for a name that contains a colon: <<before, after>> the last colon
RSplit(name) ==
    LET i == CHOOSE k \in 1..Len(name) :
                 name[k] = ":" /\ \A j \in (k + 1)..Len(name) : name[j] /= ":"
    IN  <<SubSeq(name, 1, i - 1), SubSeq(name, i + 1, Len(name))>>

\* f"{dist_name}/{pack_name}"
QualifiedName(dist_name, pack_name) == dist_name \o <<"/">> \o pack_name

\* f"{prefix}:{resource}"
Prefixed(prefix, resource) == prefix \o <<":">> \o resource

----------------------------------------------------------------------------
(* Dictionaries: a function on the set of its keys *)

EmptyDict == [k \in {} |-> <<>>]

Put(d, k, v) == [x \in (DOMAIN d) \cup {k} |-> IF x = k THEN v ELSE d[x]]

Del(d, k) == [x \in (DOMAIN d) \ {k} |-> d[x]]

\* list.remove(x): drops the first occurrence
RECURSIVE ListRemove(_, _)
ListRemove(l, x) ==
    IF l = <<>> THEN <<>>
    ELSE IF Head(l) = x THEN Tail(l)
    ELSE <<Head(l)>> \o ListRemove(Tail(l), x)

InList(l, x) == \E i \in 1..Len(l) : l[i] = x

----------------------------------------------------------------------------
(* The inputs: what the environment can hold and what a caller can pass *)

\* the value None
None == <<"None">>

Dists == { <<"a">>, <<"B">> }
PackNames == { <<"p">>, <<"Q">> }
QualifiedNames == { <<"a", "/", "p">>, <<"B", "/", "p">>, <<"a", "/", "Q">> }

\* what get_prefixes() or the factory's metadata can declare: nothing, a short
\* alias, another pack's name in upper case, another pack's qualified name
AliasLists == { <<>>, << <<"x">> >>, << <<"P">> >>, << <<"a", "/", "p">> >> }

\* the resources a pack instance holds: its content is fixed by the pack's identity
PackContents(dist_name, pack_name) ==
    CASE dist_name = <<"a">> /\ pack_name = <<"p">> -> { <<"r">> }
      [] dist_name = <<"B">> /\ pack_name = <<"p">> -> { <<"r">>, <<"s">> }
      [] OTHER -> { <<"s">> }

\* what the pack's list_resources() enumerates: the keys of the dict its
\* get_resource() looks up, in insertion order
PackListing(dist_name, pack_name) ==
    CASE dist_name = <<"a">> /\ pack_name = <<"p">> -> << <<"r">> >>
      [] dist_name = <<"B">> /\ pack_name = <<"p">> -> << <<"r">>, <<"s">> >>
      [] OTHER -> << <<"s">> >>

\* the archive of a ZippedResourcePack: the member names in the archive's
\* directory, and the members whose data cannot be read (the stored bytes fail the
\* CRC check: ZipFile.read raises BadZipFile, which get_resource lets through)
ZipArchive == [namelist |-> << <<"s">>, <<"b">> >>, unreadable |-> { <<"b">> }]

\* a sorted list of names with one more name put in its place
RECURSIVE InsertName(_, _)
InsertName(sorted, n) ==
    IF sorted = <<>> THEN <<n>>
    ELSE IF StrLess(n, Head(sorted)) THEN <<n>> \o sorted
    ELSE <<Head(sorted)>> \o InsertName(Tail(sorted), n)

\* sorted(names): a name the list holds twice stays twice
RECURSIVE SortedNames(_)
SortedNames(names) ==
    IF names = <<>> THEN <<>> ELSE InsertName(SortedNames(Tail(names)), Head(names))

\* name.endswith("/")
IsDirectory(name) == name /= <<>> /\ name[Len(name)] = "/"

\* ZippedResourcePack._get_resource_list(): the archive's names that are not
\* directories, sorted
ZipListing(archive) ==
    SortedNames(SelectSeq(archive.namelist, LAMBDA n : ~IsDirectory(n)))

\* the names ZippedResourcePack.get_resource() returns a ResourceContent for
ZipContents(archive) ==
    { archive.namelist[i] : i \in 1..Len(archive.namelist) } \ archive.unreadable

\* the names for which ZippedResourcePack.get_resource() raises an exception that
\* is not a ValueError: the members that cannot be read (BadZipFile); for a name
\* that is not a member it raises ValueError
ZipBroken(archive) ==
    { archive.namelist[i] : i \in 1..Len(archive.namelist) } \cap archive.unreadable

\* the content_type of every ResourceContent the packs return
ContentType == <<"t">>

\* a pack instance: get_priority may be missing (or raise), otherwise it returns
\* the same integer on every call; get_resource returns a ResourceContent for the
\* names in resources, raises an exception that is not a ValueError for the names
\* in broken, and raises ValueError for every other name
PackInstances(dist_name, pack_name) ==
    { [has_get_priority |-> h, priority |-> n,
       resources |-> PackContents(dist_name, pack_name),
       broken |-> {},
       listing |-> PackListing(dist_name, pack_name)] :
        <<h, n>> \in { <<FALSE, 0>>, <<TRUE, 1>>, <<TRUE, 2>> } }

\* the tuples (dist_name, pack_name, pack, aliases) an adapter can yield; a pack
\* without get_priority declares no aliases (discover() drops it before reading them)
Tuples ==
    UNION { { e \in [dist_name : {d}, pack_name : {p}, pack : PackInstances(d, p),
                      aliases : AliasLists] :
                e.pack.has_get_priority \/ e.aliases = <<>> } :
            <<d, p>> \in { x \in Dists \X PackNames :
                             QualifiedName(x[1], x[2]) \in QualifiedNames } }

EntryQualified(e) == QualifiedName(e.dist_name, e.pack_name)

\* sequences of at most n elements of S
SeqsUpTo(S, n) == UNION { [1..k -> S] : k \in 0..n }

\* the tuples whose aliases are short: none holds a "/"
ShortTuples ==
    { e \in Tuples : \A i \in 1..Len(e.aliases) : ~Contains(e.aliases[i], "/") }

\* what the adapter enumerates: qualified names are pairwise distinct (a
\* distribution's entry-point names are unique within the group)
Adapters ==
    { a \in SeqsUpTo(ShortTuples, MaxEntries) :
        \A i, j \in 1..Len(a) : i /= j => EntryQualified(a[i]) /= EntryQualified(a[j]) }

\* what the adapter enumerates where only the tables are examined: any of the
\* tuples, up to one for each qualified name
TableAdapters ==
    { a \in SeqsUpTo(Tuples, MaxTableEntries) :
        \A i, j \in 1..Len(a) : i /= j => EntryQualified(a[i]) /= EntryQualified(a[j]) }

\* blocklist arguments: empty, or one short name and one qualified name
Blocklists == { {}, { <<"Q">>, <<"B", "/", "p">> } }

\* prefix_map arguments: a dict in insertion order, as <<alias, target>> pairs
OverrideAliases == { <<"x">>, <<"X">> }
OverrideTargets == { <<"a", "/", "p">>, <<"B", "/", "p">> }
PrefixMaps ==
    { m \in SeqsUpTo(OverrideAliases \X OverrideTargets, MaxOverrides) :
        \A i, j \in 1..Len(m) : i /= j => m[i][1] /= m[j][1] }

\* default_prefix arguments a caller may want to pass
DefaultPrefixArgs == { None, <<"p">>, <<"a", "/", "p">> }

\* the names callers look up
PrefixParts ==
    { <<"p">>, <<"P">>, <<"q">>, <<"x">>, <<"X">>, <<"z">>,
      <<"a", "/", "p">>, <<"B", "/", "p">>, <<"b", "/", "p">>, <<"a", "/", "Q">>,
      <<"z", "/", "z">> }
ResourceNames == { <<"r">>, <<"s">> }
BareNames == ResourceNames \cup { <<"z">> }
Names == { Prefixed(pp, r) : pp \in PrefixParts, r \in ResourceNames } \cup BareNames

----------------------------------------------------------------------------
(* The discovery adapter: _get_entry_points() over the entry points of the    *)
(* group "justmyresource.packs".  A Python value is a record with its type:   *)
(* None, a str, a list of str, a dict, a tuple, or an object with the methods *)
(* it has.                                                                    *)

NoneValue == [type |-> "NoneType"]
StrValue == [type |-> "str"]
ListValue(items) == [type |-> "list", items |-> items]
\* a metadata dict, with or without the key "prefixes"
DictValue(has_prefixes, prefixes) ==
    [type |-> "dict", has_prefixes |-> has_prefixes, prefixes |-> prefixes]
TupleValue(items) == [type |-> "tuple", items |-> items]
\* an object: the methods it has, what get_priority() returns, what get_prefixes()
\* returns (or that it raises), the resources get_resource() knows
Object(methods, priority, prefixes, resources) ==
    [type |-> "object", methods |-> methods, priority |-> priority,
     prefixes |-> prefixes, resources |-> resources]
RaisesValue == [type |-> "raises"]

\* hasattr(v, method)
HasAttr(v, method) == v.type = "object" /\ method \in v.methods

\* ep.dist.name if hasattr(ep, "dist") and ep.dist else "unknown"
Unknown == <<"u", "n", "k", "n", "o", "w", "n">>
DistName(ep) == IF ep.dist = None THEN Unknown ELSE ep.dist

\* "provider" after the normalisation of the factory's result: a direct instance,
\* the first item of a pair, the second item of a longer tuple, None otherwise
ProviderOf(result) ==
    IF result.type = "tuple"
    THEN IF Len(result.items) = 2 THEN result.items[1]
         ELSE IF Len(result.items) >= 3 THEN result.items[2]
         ELSE NoneValue
    ELSE result

\* "aliases" after the normalisation: metadata["prefixes"] of a pair, the third item
\* of a longer tuple, both only when a list; get_prefixes() of a direct instance
AliasesOf(result) ==
    IF result.type = "tuple"
    THEN IF Len(result.items) = 2
         THEN LET metadata == result.items[2]
              IN  IF metadata.type = "dict" /\ metadata.has_prefixes
                     /\ metadata.prefixes.type = "list"
                  THEN metadata.prefixes.items
                  ELSE <<>>
         ELSE IF Len(result.items) >= 3 /\ result.items[3].type = "list"
         THEN result.items[3].items
         ELSE <<>>
    ELSE IF HasAttr(result, "get_prefixes") THEN result.prefixes.items
    ELSE <<>>

\* the body of "for ep in eps": the tuple it yields, in a sequence, or the empty
\* sequence when the entry point is skipped ("continue", or an exception caught)
GetEntryPoint(ep) ==
    IF ep.load = "raises" \/ ep.call = "raises" THEN <<>>
    ELSE
        LET result == ep.result
            provider == ProviderOf(result)
        IN  IF result.type /= "tuple" /\ ~HasAttr(result, "get_resource") THEN <<>>
            ELSE IF result.type /= "tuple" /\ HasAttr(result, "get_prefixes")
                    /\ result.prefixes.type = "raises" THEN <<>>
            ELSE IF provider.type = "NoneType" THEN <<>>
            ELSE IF ~( /\ HasAttr(provider, "get_resource")
                       /\ HasAttr(provider, "list_resources")
                       /\ HasAttr(provider, "get_priority") ) THEN <<>>
            ELSE << [dist_name |-> DistName(ep), pack_name |-> ep.name,
                     pack |-> [has_get_priority |-> TRUE, priority |-> provider.priority,
                               resources |-> provider.resources,
                               broken |-> {},
                               listing |-> PackListing(DistName(ep), ep.name)],
                     aliases |-> AliasesOf(result)] >>

\* ResourceRegistry._get_entry_points(), consumed to the end
RECURSIVE GetEntryPoints(_)
GetEntryPoints(eps) ==
    IF eps = <<>> THEN <<>> ELSE GetEntryPoint(Head(eps)) \o GetEntryPoints(Tail(eps))

\* the objects factories produce for the pack (dist, name)
AllMethods == { "get_resource", "list_resources", "get_priority", "get_prefixes" }
Conforming(d, n, priority) ==
    Object(AllMethods \ {"get_prefixes"}, priority, ListValue(<<>>), PackContents(d, n))
Objects(d, n) ==
    { Conforming(d, n, 1), Conforming(d, n, 2),
      Object(AllMethods, 1, ListValue(<< <<"x">> >>), PackContents(d, n)),
      Object(AllMethods, 1, RaisesValue, PackContents(d, n)),
      Object({"get_resource", "list_resources"}, 0, ListValue(<<>>), PackContents(d, n)),
      Object({"get_resource", "get_priority"}, 1, ListValue(<<>>), PackContents(d, n)),
      Object({"list_resources", "get_priority"}, 1, ListValue(<<>>), PackContents(d, n)) }

\* what a factory can return for the pack (dist, name)
FactoryResults(d, n) ==
    Objects(d, n) \cup
    { NoneValue,
      TupleValue(<<>>),
      TupleValue(<< Conforming(d, n, 1) >>),
      TupleValue(<< Conforming(d, n, 1), DictValue(TRUE, ListValue(<< <<"x">> >>)) >>),
      TupleValue(<< Conforming(d, n, 1), DictValue(TRUE, StrValue) >>),
      TupleValue(<< Conforming(d, n, 1), NoneValue >>),
      TupleValue(<< NoneValue, DictValue(FALSE, NoneValue) >>),
      TupleValue(<< Object({"get_resource", "list_resources"}, 0, ListValue(<<>>),
                           PackContents(d, n)),
                    DictValue(FALSE, NoneValue) >>),
      TupleValue(<< StrValue, Conforming(d, n, 1), ListValue(<< <<"x">> >>) >>),
      TupleValue(<< StrValue, Conforming(d, n, 1), StrValue >>) }

\* the entry points an environment can hold: (distribution, name) identifies one
EntryPointIds == { << <<"a">>, <<"p">> >>, << <<"B">>, <<"p">> >>, << None, <<"Q">> >> }
EntryPoints ==
    UNION { [dist : {id[1]}, name : {id[2]}, load : {"ok"}, call : {"ok"},
             result : FactoryResults(DistName([dist |-> id[1]]), id[2])]
            \cup { [dist |-> id[1], name |-> id[2], load |-> "raises", call |-> "ok",
                    result |-> NoneValue],
                   [dist |-> id[1], name |-> id[2], load |-> "ok", call |-> "raises",
                    result |-> NoneValue] } :
            id \in EntryPointIds }

\* the group's entry points, in the order entry_points() reports them
EntryPointLists ==
    { l \in SeqsUpTo(EntryPoints, MaxEntries) :
        \A i, j \in 1..Len(l) :
            i /= j => <<l[i].dist, l[i].name>> /= <<l[j].dist, l[j].name>> }

----------------------------------------------------------------------------
(* The pack table: a dict in insertion order, as a sequence of RegisteredPack *)

\* RegisteredPack(dist_name, pack_name, pack, aliases)
RegisteredPack(dist_name, pack_name, pack, aliases) ==
    [dist_name |-> dist_name, pack_name |-> pack_name, pack |-> pack, aliases |-> aliases]

\* RegisteredPack.qualified_name
qualified_name(rp) == QualifiedName(rp.dist_name, rp.pack_name)

\* the keys of the pack table
PackKeys(packs) == { qualified_name(packs[i]) : i \in 1..Len(packs) }

\* packs[q], for a key q
PackAt(packs, q) == packs[CHOOSE i \in 1..Len(packs) : qualified_name(packs[i]) = q]

\* packs[q] = rp: a new key is appended, an old key keeps its position
PackPut(packs, q, rp) ==
    IF q \in PackKeys(packs)
    THEN [i \in 1..Len(packs) |-> IF qualified_name(packs[i]) = q THEN rp ELSE packs[i]]
    ELSE Append(packs, rp)

----------------------------------------------------------------------------
(* Discovery: the tables as a record                                        *)
(*   packs      _packs       qualified_name -> RegisteredPack               *)
(*   prefixes   _prefixes    prefix -> qualified_name                       *)
(*   collisions _collisions  prefix -> list of qualified names              *)
(*   warnings   the number of PrefixCollisionWarning emitted                *)
(*   raised     an exception left the pass (list.remove of a missing name)  *)

Tables(packs, prefixes, collisions, warnings) ==
    [packs |-> packs, prefixes |-> prefixes, collisions |-> collisions,
     warnings |-> warnings, raised |-> FALSE]

\* _register_prefix giving the prefix, at equal priority, to the later claimant
RegisterPrefix_LastWins(tab, prefix, claimant, priority) ==
    IF tab.raised THEN tab
    ELSE IF prefix \notin DOMAIN tab.prefixes
    THEN [tab EXCEPT !.prefixes = Put(@, prefix, claimant)]
    ELSE
        LET existing_qualified == tab.prefixes[prefix]
        IN  IF existing_qualified \notin PackKeys(tab.packs) THEN tab
            ELSE
                LET existing_priority == PackAt(tab.packs, existing_qualified).pack.priority
                IN  IF priority > existing_priority
                    THEN [tab EXCEPT !.prefixes = Put(@, prefix, claimant),
                                     !.warnings = @ + 1]
                    ELSE IF priority = existing_priority
                    THEN
                        LET l0 == IF prefix \in DOMAIN tab.collisions
                                  THEN tab.collisions[prefix]
                                  ELSE <<existing_qualified>>
                            l1 == IF InList(l0, claimant) THEN l0 ELSE Append(l0, claimant)
                        IN  [tab EXCEPT !.prefixes = Put(@, prefix, claimant),
                                        !.collisions = Put(@, prefix, l1),
                                        !.warnings = @ + 1]
                    ELSE [tab EXCEPT !.warnings = @ + 1]

\* the pass stops at the first exception: later statements see the tables unchanged
\* ResourceRegistry._register_prefix(prefix, qualified_name, priority, description)
RegisterPrefix(tab, prefix, claimant, priority) ==
    IF tab.raised THEN tab
    ELSE IF prefix \notin DOMAIN tab.prefixes
    THEN [tab EXCEPT !.prefixes = Put(@, prefix, claimant)]
    ELSE
        LET existing_qualified == tab.prefixes[prefix]
        IN  IF existing_qualified \notin PackKeys(tab.packs) THEN tab
            ELSE
                LET existing_priority == PackAt(tab.packs, existing_qualified).pack.priority
                IN  IF priority > existing_priority
                    THEN
                        LET t1 == [tab EXCEPT !.prefixes = Put(@, prefix, claimant),
                                              !.warnings = @ + 1]
                        IN  IF prefix \notin DOMAIN t1.collisions THEN t1
                            ELSE IF ~InList(t1.collisions[prefix], existing_qualified)
                            THEN [t1 EXCEPT !.raised = TRUE]
                            ELSE
                                LET l == ListRemove(t1.collisions[prefix], existing_qualified)
                                IN  IF l = <<>>
                                    THEN [t1 EXCEPT !.collisions = Del(@, prefix)]
                                    ELSE [t1 EXCEPT !.collisions = Put(@, prefix, l)]
                    ELSE IF priority = existing_priority
                    THEN
                        LET l0 == IF prefix \in DOMAIN tab.collisions
                                  THEN tab.collisions[prefix]
                                  ELSE <<existing_qualified>>
                            l1 == IF InList(l0, claimant) THEN l0 ELSE Append(l0, claimant)
                        IN  [tab EXCEPT !.collisions = Put(@, prefix, l1),
                                        !.warnings = @ + 1]
                    ELSE [tab EXCEPT !.warnings = @ + 1]

\* for alias in aliases: self._register_prefix(alias.lower(), ...)
RECURSIVE RegisterAliases(_, _, _, _)
RegisterAliases(tab, aliases, claimant, priority) ==
    IF aliases = <<>> THEN tab
    ELSE RegisterAliases(RegisterPrefix(tab, Lower(Head(aliases)), claimant, priority),
                         Tail(aliases), claimant, priority)

\* the prefixes pack e registers through _register_prefix, in order: its pack
\* name, then its aliases
Registrations(e) == <<Lower(e.pack_name)>> \o [k \in 1..Len(e.aliases) |-> Lower(e.aliases[k])]

\* one iteration of "for dist_name, pack_name, pack, priority, aliases in packs"
ProcessPack(tab, e) ==
    IF tab.raised THEN tab
    ELSE
        LET q  == QualifiedName(e.dist_name, e.pack_name)
            rp == RegisteredPack(e.dist_name, e.pack_name, e.pack, e.aliases)
            t1 == [tab EXCEPT !.packs = PackPut(@, q, rp),
                              !.prefixes = Put(@, Lower(q), q)]
            t2 == RegisterPrefix(t1, Lower(e.pack_name), q, e.pack.priority)
        IN  RegisterAliases(t2, e.aliases, q, e.pack.priority)

RECURSIVE ProcessPacks(_, _)
ProcessPacks(tab, todo) ==
    IF todo = <<>> THEN tab ELSE ProcessPacks(ProcessPack(tab, Head(todo)), Tail(todo))

\* the override loop without its "if target_qualified in self._packs"
RECURSIVE ApplyOverrides_Unchecked(_, _)
ApplyOverrides_Unchecked(tab, prefix_map) ==
    IF tab.raised \/ prefix_map = <<>> THEN tab
    ELSE ApplyOverrides_Unchecked(
             [tab EXCEPT !.prefixes = Put(@, Lower(Head(prefix_map)[1]), Head(prefix_map)[2])],
             Tail(prefix_map))

\* the loop over self._prefix_map.items()
RECURSIVE ApplyOverrides(_, _)
ApplyOverrides(tab, prefix_map) ==
    IF tab.raised \/ prefix_map = <<>> THEN tab
    ELSE
        LET alias == Head(prefix_map)[1]
            target_qualified == Head(prefix_map)[2]
            t1 == IF target_qualified \in PackKeys(tab.packs)
                  THEN [tab EXCEPT !.prefixes = Put(@, Lower(alias), target_qualified)]
                  ELSE tab
        IN  ApplyOverrides(t1, Tail(prefix_map))

\* the first loop with a blocklist test on pack_name only
CollectPacks_ShortNamesOnly(entries, blocklist) ==
    LET Keep(e) ==
            /\ e.pack_name \notin blocklist
            /\ e.pack.has_get_priority
    IN  SelectSeq(entries, Keep)

\* the first loop of discover(): drop blocked tuples and those whose get_priority() raises
CollectPacks(entries, blocklist) ==
    LET Keep(e) ==
            /\ ~(e.pack_name \in blocklist \/ EntryQualified(e) \in blocklist)
            /\ e.pack.has_get_priority
    IN  SelectSeq(entries, Keep)

\* the sort key (priority, pack_name)
KeyLess(e1, e2) ==
    \/ e1.pack.priority < e2.pack.priority
    \/ e1.pack.priority = e2.pack.priority /\ StrLess(e1.pack_name, e2.pack_name)

RECURSIVE InsertSorted(_, _)
InsertSorted(sorted, e) ==
    IF sorted = <<>> THEN <<e>>
    ELSE IF KeyLess(Head(sorted), e) THEN <<e>> \o sorted
    ELSE <<Head(sorted)>> \o InsertSorted(Tail(sorted), e)

\* the packs processed as the adapter enumerated them, without packs.sort(...)
SortPacks_AsEnumerated(l) == l

\* packs.sort(key=lambda x: (x[3], x[1]), reverse=True): descending, stable
RECURSIVE SortPacks(_)
SortPacks(l) ==
    IF l = <<>> THEN <<>>
    ELSE InsertSorted(SortPacks(SubSeq(l, 1, Len(l) - 1)), l[Len(l)])

\* the body of discover() after the flag check, run without interruption
DiscoverPass(tab, entries, blocklist, prefix_map) ==
    ApplyOverrides(ProcessPacks(tab, SortPacks(CollectPacks(entries, blocklist))), prefix_map)

----------------------------------------------------------------------------
(* Name resolution *)

Resolved(q, resource_name, probes) ==
    [kind |-> "ok", pack |-> q, resource |-> resource_name, listed |-> {}, probes |-> probes]

\* a ValueError of _resolve_name: its kind, and the names its message enumerates
Failure(kind, resource_name, listed, probes) ==
    [kind |-> kind, pack |-> None, resource |-> resource_name, listed |-> listed,
     probes |-> probes]

\* an exception of a pack's get_resource that is not a ValueError and leaves
\* _resolve_name at the pack tried last
Escaped(probes) ==
    [kind |-> "PackError", pack |-> None, resource |-> None, listed |-> {},
     probes |-> probes]

\* the position taken by packs[i] in sorted(items, key=priority, reverse=True)
RankByPriority(packs, i) ==
    1 + Cardinality({ j \in 1..Len(packs) :
                        \/ packs[j].pack.priority > packs[i].pack.priority
                        \/ packs[j].pack.priority = packs[i].pack.priority /\ j < i })

\* the search with the packs tried in ascending priority order
SearchPacks_Ascending(packs, name) ==
    LET ending == { i \in 1..Len(packs) :
                      name \in packs[i].pack.resources \cup packs[i].pack.broken }
        Rank(i) == 1 + Cardinality({ j \in 1..Len(packs) :
                           \/ packs[j].pack.priority < packs[i].pack.priority
                           \/ packs[j].pack.priority = packs[i].pack.priority /\ j < i })
    IN  IF ending = {}
        THEN Failure("ResourceNotFound", name, {}, Len(packs))
        ELSE
            LET first == CHOOSE i \in ending : \A j \in ending : Rank(i) <= Rank(j)
            IN  IF name \in packs[first].pack.broken THEN Escaped(Rank(first))
                ELSE Resolved(qualified_name(packs[first]), name, Rank(first))

\* the else branch of _resolve_name: try each pack in descending priority order.
\* "except ValueError: continue" passes over a pack that raises ValueError; the
\* first pack that does not ends the search, by returning (the pair is the result)
\* or by raising another exception (which leaves _resolve_name)
SearchPacks(packs, name) ==
    LET ending == { i \in 1..Len(packs) :
                      name \in packs[i].pack.resources \cup packs[i].pack.broken }
    IN  IF ending = {}
        THEN Failure("ResourceNotFound", name, {}, Len(packs))
        ELSE
            LET first == CHOOSE i \in ending :
                             \A j \in ending : RankByPriority(packs, i) <= RankByPriority(packs, j)
            IN  IF name \in packs[first].pack.broken
                THEN Escaped(RankByPriority(packs, first))
                ELSE Resolved(qualified_name(packs[first]), name, RankByPriority(packs, first))

\* _resolve_name looking the prefix part up as written, without lower()
ResolveName_ExactCase(packs, prefixes, collisions, name) ==
    IF Contains(name, ":")
    THEN
        LET prefix_part   == RSplit(name)[1]
            resource_name == RSplit(name)[2]
        IN  IF Contains(prefix_part, "/")
            THEN IF prefix_part \in PackKeys(packs)
                 THEN Resolved(prefix_part, resource_name, 0)
                 ELSE Failure("UnknownQualifiedPack", resource_name, PackKeys(packs), 0)
            ELSE IF prefix_part \in DOMAIN collisions
            THEN Failure("AmbiguousPrefix", resource_name,
                         { collisions[prefix_part][i] : i \in 1..Len(collisions[prefix_part]) },
                         0)
            ELSE IF prefix_part \notin DOMAIN prefixes
            THEN Failure("UnknownPrefix", resource_name, DOMAIN prefixes, 0)
            ELSE Resolved(prefixes[prefix_part], resource_name, 0)
    ELSE SearchPacks(packs, name)

\* _resolve_name looking the short prefix up in the prefix table before the ledger
ResolveName_OwnerFirst(packs, prefixes, collisions, name) ==
    IF Contains(name, ":")
    THEN
        LET prefix_part   == RSplit(name)[1]
            resource_name == RSplit(name)[2]
            prefix_lower  == Lower(prefix_part)
        IN  IF Contains(prefix_part, "/")
            THEN IF prefix_lower \in PackKeys(packs)
                 THEN Resolved(prefix_lower, resource_name, 0)
                 ELSE Failure("UnknownQualifiedPack", resource_name, PackKeys(packs), 0)
            ELSE IF prefix_lower \in DOMAIN prefixes
            THEN Resolved(prefixes[prefix_lower], resource_name, 0)
            ELSE IF prefix_lower \in DOMAIN collisions
            THEN Failure("AmbiguousPrefix", resource_name,
                         { collisions[prefix_lower][i] : i \in 1..Len(collisions[prefix_lower]) },
                         0)
            ELSE Failure("UnknownPrefix", resource_name, DOMAIN prefixes, 0)
    ELSE SearchPacks(packs, name)

\* ResourceRegistry._resolve_name(name)
ResolveName(packs, prefixes, collisions, name) ==
    IF Contains(name, ":")
    THEN
        LET prefix_part   == RSplit(name)[1]
            resource_name == RSplit(name)[2]
            prefix_lower  == Lower(prefix_part)
        IN  IF Contains(prefix_part, "/")
            THEN IF prefix_lower \in PackKeys(packs)
                 THEN Resolved(prefix_lower, resource_name, 0)
                 ELSE Failure("UnknownQualifiedPack", resource_name, PackKeys(packs), 0)
            ELSE IF prefix_lower \in DOMAIN collisions
            THEN Failure("AmbiguousPrefix", resource_name,
                         { collisions[prefix_lower][i] : i \in 1..Len(collisions[prefix_lower]) },
                         0)
            ELSE IF prefix_lower \notin DOMAIN prefixes
            THEN Failure("UnknownPrefix", resource_name, DOMAIN prefixes, 0)
            ELSE Resolved(prefixes[prefix_lower], resource_name, 0)
    ELSE SearchPacks(packs, name)

\* get_resource falling back on the other packs when the resolved pack raises
FetchResource_Fallback(packs, prefixes, collisions, name) ==
    LET r == ResolveName(packs, prefixes, collisions, name)
    IN  IF r.kind /= "ok" THEN r
        ELSE IF r.pack \notin PackKeys(packs) THEN [r EXCEPT !.kind = "KeyError"]
        ELSE IF r.resource \in PackAt(packs, r.pack).pack.broken
        THEN [r EXCEPT !.kind = "PackError"]
        ELSE IF r.resource \in PackAt(packs, r.pack).pack.resources
        THEN [r EXCEPT !.kind = "content"]
        ELSE IF SearchPacks(packs, r.resource).kind = "ok"
        THEN [r EXCEPT !.kind = "content", !.pack = SearchPacks(packs, r.resource).pack]
        ELSE [r EXCEPT !.kind = "NotFound"]

\* the last three statements of ResourceRegistry.get_resource(name): whatever
\* the resolved pack raises reaches the caller, its ValueError ("NotFound") or
\* another exception ("PackError")
FetchResource(packs, prefixes, collisions, name) ==
    LET r == ResolveName(packs, prefixes, collisions, name)
    IN  IF r.kind /= "ok" THEN r
        ELSE IF r.pack \notin PackKeys(packs) THEN [r EXCEPT !.kind = "KeyError"]
        ELSE IF r.resource \in PackAt(packs, r.pack).pack.broken
        THEN [r EXCEPT !.kind = "PackError"]
        ELSE IF r.resource \in PackAt(packs, r.pack).pack.resources
        THEN [r EXCEPT !.kind = "content"]
        ELSE [r EXCEPT !.kind = "NotFound"]

----------------------------------------------------------------------------
(* Enumeration *)

\* ResourceInfo(name, pack, content_type)
ResourceInfo(name, pack, content_type) ==
    [name |-> name, pack |-> pack, content_type |-> content_type]

\* the loop over registered_pack.pack.list_resources(): one ResourceInfo per name,
\* content_type None when the pack's get_resource(name) raises
InfosOf(rp) ==
    LET listing == rp.pack.listing
    IN  [k \in 1..Len(listing) |->
            ResourceInfo(listing[k], qualified_name(rp),
                         IF listing[k] \in rp.pack.resources THEN ContentType ELSE None)]

RECURSIVE InfosOfAll(_)
InfosOfAll(packs) ==
    IF packs = <<>> THEN <<>> ELSE InfosOf(Head(packs)) \o InfosOfAll(Tail(packs))

\* list_resources matching the filter as given, without pack.lower()
ListInfos_ExactCase(packs, prefixes, pack) ==
    IF pack /= None /\ pack /= <<>>
    THEN IF pack \in PackKeys(packs) THEN InfosOf(PackAt(packs, pack))
         ELSE IF pack \notin DOMAIN prefixes THEN <<>>
         ELSE IF prefixes[pack] \notin PackKeys(packs) THEN <<>>
         ELSE InfosOf(PackAt(packs, prefixes[pack]))
    ELSE InfosOfAll(packs)

\* what ResourceRegistry.list_resources(pack) yields after its call of discover();
\* "if pack" is false for None and for the empty string
ListInfos(packs, prefixes, pack) ==
    IF pack /= None /\ pack /= <<>>
    THEN
        LET pack_lower == Lower(pack)
        IN  IF pack_lower \in PackKeys(packs) THEN InfosOf(PackAt(packs, pack_lower))
            ELSE IF pack_lower \notin DOMAIN prefixes THEN <<>>
            ELSE IF prefixes[pack_lower] \notin PackKeys(packs) THEN <<>>
            ELSE InfosOf(PackAt(packs, prefixes[pack_lower]))
    ELSE InfosOfAll(packs)

----------------------------------------------------------------------------
(* The state *)

VARIABLES
    eps,                \* the group's entry points, or None when _get_entry_points is
                        \* replaced by a stub, as the repository's tests do
    entry_points,       \* what _get_entry_points() yields in this environment
    phase,              \* "new", "ready" (constructed) or "TypeError" (__init__ raised)
    default_prefix_arg, \* the default_prefix keyword passed to __init__, or None
    _blocklist,         \* self._blocklist
    _prefix_map,        \* self._prefix_map, in insertion order
    _packs,             \* self._packs, in insertion order
    _prefixes,          \* self._prefixes
    _collisions,        \* self._collisions
    _discovered,        \* self._discovered
    warnings,           \* PrefixCollisionWarning emitted so far
    enumerations,       \* calls of _get_entry_points() so far
    result,             \* the outcome of the last call on the registry
    gen,                \* the generator the caller holds: what list_packs() or
                        \* list_resources() returned, and how far it has run
    pc,                 \* ThreadSpec: the statement of discover() each thread is at
    todo,               \* ThreadSpec: each thread's local list "packs", yet to process
    frame               \* ThreadSpec: each thread's other locals inside discover()

vars == <<eps, entry_points, phase, default_prefix_arg, _blocklist, _prefix_map, _packs,
          _prefixes, _collisions, _discovered, warnings, enumerations, result, gen, pc,
          todo, frame>>

config == <<eps, entry_points, phase, default_prefix_arg, _blocklist, _prefix_map>>
threads == <<pc, todo, frame>>

Threads == 1..NumThreads

NoResult == [op |-> "none"]

\* the caller holds no generator
NoGen == [op |-> "none"]

\* a thread's locals outside the loops: j counts the calls of _register_prefix made
\* for the current pack, existing is existing_qualified, k is the next item of
\* self._prefix_map.items()
NoFrame == [j |-> 0, existing |-> None, k |-> 1]

\* the registry's tables as they stand
Current == Tables(_packs, _prefixes, _collisions, warnings)

\* the tables become tab
Store(tab) ==
    /\ _packs' = tab.packs
    /\ _prefixes' = tab.prefixes
    /\ _collisions' = tab.collisions
    /\ warnings' = tab.warnings

\* the environment holds some entry points; no registry exists yet
Init ==
    /\ eps = None
    /\ entry_points \in Adapters
    /\ phase = "new"
    /\ default_prefix_arg = None
    /\ _blocklist = {}
    /\ _prefix_map = <<>>
    /\ _packs = <<>>
    /\ _prefixes = EmptyDict
    /\ _collisions = EmptyDict
    /\ _discovered = FALSE
    /\ warnings = 0
    /\ enumerations = 0
    /\ result = NoResult
    /\ pc = [t \in Threads |-> "idle"]
    /\ todo = [t \in Threads |-> <<>>]
    /\ frame = [t \in Threads |-> NoFrame]
    /\ gen = NoGen

\* ResourceRegistry(blocklist=..., prefix_map=..., default_prefix=...): __init__ takes
\* blocklist and prefix_map only, so any other keyword raises TypeError; the
\* environment variables RESOURCE_DISCOVERY_BLOCKLIST and RESOURCE_PREFIX_MAP are unset
Construct(blocklist, prefix_map, default_prefix) ==
    /\ phase = "new"
    /\ default_prefix_arg' = default_prefix
    /\ IF default_prefix /= None
       THEN /\ phase' = "TypeError"
            /\ UNCHANGED <<_blocklist, _prefix_map>>
       ELSE /\ phase' = "ready"
            /\ _blocklist' = blocklist
            /\ _prefix_map' = prefix_map
    /\ result' = [op |-> "__init__"]
    /\ UNCHANGED <<eps, entry_points, _packs, _prefixes, _collisions, _discovered,
                   warnings, enumerations, threads, gen>>

\* the tables a call of self.discover() leaves, run without interruption
AfterDiscover ==
    IF _discovered THEN Current
    ELSE DiscoverPass(Current, entry_points, _blocklist, _prefix_map)

\* discover() without its "if self._discovered: return"
DoDiscover_NoFlagCheck ==
    LET tab == DiscoverPass(Current, entry_points, _blocklist, _prefix_map)
    IN  /\ Store(tab)
        /\ _discovered' = (_discovered \/ ~tab.raised)
        /\ enumerations' = IF enumerations < MaxEntries + 2 THEN enumerations + 1
                           ELSE enumerations

\* the effect of a call of self.discover() on the registry
DoDiscover ==
    /\ Store(AfterDiscover)
    /\ _discovered' = (_discovered \/ ~AfterDiscover.raised)
    /\ enumerations' = IF _discovered THEN enumerations ELSE enumerations + 1

\* the call's own outcome when discover() raised inside it
Raised == [kind |-> "raised"]

\* ResourceRegistry.discover(); "repeated" notes that the call found the flag set
Discover ==
    /\ phase = "ready"
    /\ DoDiscover
    /\ result' = [op |-> "discover", repeated |-> _discovered,
                  out |-> IF AfterDiscover.raised THEN Raised ELSE [kind |-> "ok"]]
    /\ UNCHANGED <<config, threads, gen>>

\* get_resource remembering, in the prefix table, the pack that served the name
GetResource_Remembering(name) ==
    /\ phase = "ready"
    /\ LET out == IF AfterDiscover.raised THEN Raised
                  ELSE FetchResource(AfterDiscover.packs, AfterDiscover.prefixes,
                                     AfterDiscover.collisions, name)
       IN  /\ result' = [op |-> "get_resource", name |-> name, out |-> out]
           /\ _packs' = AfterDiscover.packs
           /\ _prefixes' = IF out.kind = "content"
                           THEN Put(AfterDiscover.prefixes, name, out.pack)
                           ELSE AfterDiscover.prefixes
           /\ _collisions' = AfterDiscover.collisions
           /\ warnings' = AfterDiscover.warnings
    /\ _discovered' = (_discovered \/ ~AfterDiscover.raised)
    /\ enumerations' = IF _discovered THEN enumerations ELSE enumerations + 1
    /\ UNCHANGED <<config, threads, gen>>

\* ResourceRegistry.get_resource(name)
GetResource(name) ==
    /\ phase = "ready"
    /\ DoDiscover
    /\ result' = [op |-> "get_resource", name |-> name,
                  out |-> IF AfterDiscover.raised THEN Raised
                          ELSE FetchResource(AfterDiscover.packs, AfterDiscover.prefixes,
                                             AfterDiscover.collisions, name)]
    /\ UNCHANGED <<config, threads, gen>>

\* a generator object as the call returns it: its body has not begun to run
Generator(op, pack) ==
    [op |-> op, filter |-> pack, started |-> FALSE, done |-> FALSE, yielded |-> <<>>]

\* ResourceRegistry.list_packs(): the body holds a yield, so the call runs none of
\* it and returns a generator; the caller keeps one generator at a time
ListPacks ==
    /\ phase = "ready"
    /\ gen' = Generator("list_packs", None)
    /\ result' = [op |-> "generator", of |-> "list_packs"]
    /\ UNCHANGED <<config, _packs, _prefixes, _collisions, _discovered, warnings,
                   enumerations, threads>>

\* ResourceRegistry.get_prefix_map()
GetPrefixMap ==
    /\ phase = "ready"
    /\ DoDiscover
    /\ result' = [op |-> "get_prefix_map",
                  out |-> IF AfterDiscover.raised THEN Raised
                          ELSE [kind |-> "ok", value |-> AfterDiscover.prefixes]]
    /\ UNCHANGED <<config, threads, gen>>

\* ResourceRegistry.get_prefix_collisions()
GetPrefixCollisions ==
    /\ phase = "ready"
    /\ DoDiscover
    /\ result' = [op |-> "get_prefix_collisions",
                  out |-> IF AfterDiscover.raised THEN Raised
                          ELSE [kind |-> "ok", value |-> AfterDiscover.collisions]]
    /\ UNCHANGED <<config, threads, gen>>

\* ResourceRegistry._resolve_name(name), called directly as the repository's tests
\* do: it does not call discover() and reads the tables as they stand
CallResolveName(name) ==
    /\ phase = "ready"
    /\ result' = [op |-> "_resolve_name", name |-> name,
                  out |-> ResolveName(_packs, _prefixes, _collisions, name)]
    /\ UNCHANGED <<config, _packs, _prefixes, _collisions, _discovered, warnings,
                   enumerations, threads, gen>>

\* ResourceRegistry.list_resources(pack): a generator function as well
ListResources(pack) ==
    /\ phase = "ready"
    /\ gen' = Generator("list_resources", pack)
    /\ result' = [op |-> "generator", of |-> "list_resources", filter |-> pack]
    /\ UNCHANGED <<config, _packs, _prefixes, _collisions, _discovered, warnings,
                   enumerations, threads>>

\* everything the body of generator g yields on the tables tab, in order: the keys
\* of the pack table, or one ResourceInfo after each pack.get_resource probe
Items(g, tab) ==
    IF g.op = "list_packs"
    THEN [i \in 1..Len(tab.packs) |-> qualified_name(tab.packs[i])]
    ELSE ListInfos(tab.packs, tab.prefixes, g.filter)

\* what the caller has once the generator is exhausted: every item it was given
Exhausted(g, out) ==
    IF g.op = "list_packs" THEN [op |-> "list_packs", out |-> out]
    ELSE [op |-> "list_resources", filter |-> g.filter, out |-> out]

\* next(g) on the generator the caller holds: the first one runs the body from its
\* start, self.discover() included, up to the first yield; every later one runs
\* from that yield to the next; the body's return ends the iteration, and the
\* caller then holds the items of all the yields
NextItem ==
    /\ phase = "ready"
    /\ gen.op /= "none"
    /\ ~gen.done
    /\ IF gen.started
       THEN UNCHANGED <<_packs, _prefixes, _collisions, _discovered, warnings, enumerations>>
       ELSE DoDiscover
    /\ LET tab   == IF gen.started THEN Current ELSE AfterDiscover
           items == Items(gen, tab)
           k     == Len(gen.yielded) + 1
       IN  IF tab.raised
           THEN /\ gen' = [gen EXCEPT !.started = TRUE, !.done = TRUE]
                /\ result' = Exhausted(gen, Raised)
           ELSE IF k <= Len(items)
           THEN /\ gen' = [gen EXCEPT !.started = TRUE, !.yielded = Append(@, items[k])]
                /\ result' = [op |-> "next", of |-> gen.op,
                              out |-> [kind |-> "ok", value |-> items[k]]]
           ELSE /\ gen' = [gen EXCEPT !.started = TRUE, !.done = TRUE]
                /\ result' = Exhausted(gen, [kind |-> "ok", value |-> gen.yielded])
    /\ UNCHANGED <<config, threads>>

\* the names the modelled callers pass to get_resource
CallNames ==
    { <<"p", ":", "r">>, <<"x", ":", "r">>, <<"B", "/", "p", ":", "s">>, <<"r">> }

Next ==
    \/ \E b \in Blocklists, m \in PrefixMaps, d \in DefaultPrefixArgs : Construct(b, m, d)
    \/ Discover
    \/ \E n \in CallNames : GetResource(n)
    \/ GetPrefixMap
    \/ GetPrefixCollisions

Spec == Init /\ [][Next]_vars

----------------------------------------------------------------------------
(* Concurrent first use: every thread calls discover() once on one registry, *)
(* already constructed.  discover() takes no lock and the interpreter can    *)
(* switch threads between any two accesses to the registry, so a step is one *)
(* access: one membership test, one lookup, one store, one list operation,   *)
(* one warning; a test and the store it guards are two steps.  The calls     *)
(* into pack code (get_priority), str.lower() and the construction of        *)
(* RegisteredPack touch no shared state and belong to the step that follows  *)
(* them.                                                                     *)

ThreadInit ==
    /\ eps = None
    /\ entry_points \in Adapters
    /\ phase = "ready"
    /\ default_prefix_arg = None
    /\ _blocklist = {}
    /\ _prefix_map \in { m \in PrefixMaps : Len(m) <= 1 }
    /\ _packs = <<>>
    /\ _prefixes = EmptyDict
    /\ _collisions = EmptyDict
    /\ _discovered = FALSE
    /\ warnings = 0
    /\ enumerations = 0
    /\ result = NoResult
    /\ pc = [t \in Threads |-> "idle"]
    /\ todo = [t \in Threads |-> <<>>]
    /\ frame = [t \in Threads |-> NoFrame]
    /\ gen = NoGen

\* "if self._discovered: return"
Enter(t) ==
    /\ pc[t] = "idle"
    /\ pc' = [pc EXCEPT ![t] = IF _discovered THEN "done" ELSE "enumerate"]
    /\ UNCHANGED <<config, _packs, _prefixes, _collisions, _discovered, warnings,
                   enumerations, result, gen, todo, frame>>

\* the loop over self._get_entry_points() and packs.sort(...): they read the
\* adapter and the blocklist and write the local list only
Enumerate(t) ==
    /\ pc[t] = "enumerate"
    /\ LET packs == SortPacks(CollectPacks(entry_points, _blocklist))
       IN  /\ todo' = [todo EXCEPT ![t] = packs]
           /\ pc' = [pc EXCEPT ![t] = IF packs = <<>> THEN "overrides" ELSE "store_pack"]
    /\ enumerations' = enumerations + 1
    /\ UNCHANGED <<config, _packs, _prefixes, _collisions, _discovered, warnings, result,
                   gen, frame>>

\* self._packs[qualified_name] = registered_pack, for the pack at the head of the
\* thread's list
StorePack(t) ==
    /\ pc[t] = "store_pack"
    /\ LET e == Head(todo[t])
       IN  _packs' = PackPut(_packs, EntryQualified(e),
                             RegisteredPack(e.dist_name, e.pack_name, e.pack, e.aliases))
    /\ pc' = [pc EXCEPT ![t] = "store_prefix"]
    /\ UNCHANGED <<config, _prefixes, _collisions, _discovered, warnings, enumerations,
                   result, gen, todo, frame>>

\* self._prefixes[qualified_name.lower()] = qualified_name
StorePrefix(t) ==
    /\ pc[t] = "store_prefix"
    /\ LET q == EntryQualified(Head(todo[t]))
       IN  _prefixes' = Put(_prefixes, Lower(q), q)
    /\ pc' = [pc EXCEPT ![t] = "reg_check"]
    /\ UNCHANGED <<config, _packs, _collisions, _discovered, warnings, enumerations,
                   result, gen, todo, frame>>

\* the statements of _register_prefix a thread can be at
RegisterLabels ==
    { "reg_check", "reg_claim", "reg_read", "reg_get", "take_write", "take_warn", "take_check",
      "take_remove", "take_empty", "take_del", "eq_check", "eq_create", "eq_member",
      "eq_append", "warn" }

\* one statement of _register_prefix(prefix, claimant, priority, ...) on the tables
\* tab: the tables it leaves, the statement that follows ("return" when the call
\* is over, "raised" when the statement raised KeyError or ValueError) and the local
\* existing_qualified
RegisterStatement(tab, at, prefix, claimant, priority, existing) ==
    LET Go(t, label) == [tab |-> t, at |-> label, existing |-> existing]
        Held         == prefix \in DOMAIN tab.collisions
    IN  CASE at = "reg_check" ->
               Go(tab, IF prefix \notin DOMAIN tab.prefixes THEN "reg_claim" ELSE "reg_read")
          [] at = "reg_claim" ->
               Go([tab EXCEPT !.prefixes = Put(@, prefix, claimant)], "return")
          [] at = "reg_read" ->
               [tab |-> tab, existing |-> tab.prefixes[prefix], at |-> "reg_get"]
          [] at = "reg_get" ->
               IF existing \notin PackKeys(tab.packs) THEN Go(tab, "return")
               ELSE LET existing_priority == PackAt(tab.packs, existing).pack.priority
                    IN  Go(tab, IF priority > existing_priority THEN "take_write"
                                ELSE IF priority = existing_priority THEN "eq_check"
                                ELSE "warn")
          [] at = "take_write" ->
               Go([tab EXCEPT !.prefixes = Put(@, prefix, claimant)], "take_warn")
          [] at = "take_warn" ->
               Go([tab EXCEPT !.warnings = @ + 1], "take_check")
          [] at = "take_check" ->
               Go(tab, IF Held THEN "take_remove" ELSE "return")
          [] at = "take_remove" ->
               IF ~Held \/ ~InList(tab.collisions[prefix], existing) THEN Go(tab, "raised")
               ELSE Go([tab EXCEPT !.collisions =
                                      Put(@, prefix, ListRemove(@[prefix], existing))],
                       "take_empty")
          [] at = "take_empty" ->
               IF ~Held THEN Go(tab, "raised")
               ELSE Go(tab, IF tab.collisions[prefix] = <<>> THEN "take_del" ELSE "return")
          [] at = "take_del" ->
               IF ~Held THEN Go(tab, "raised")
               ELSE Go([tab EXCEPT !.collisions = Del(@, prefix)], "return")
          [] at = "eq_check" ->
               Go(tab, IF ~Held THEN "eq_create" ELSE "eq_member")
          [] at = "eq_create" ->
               Go([tab EXCEPT !.collisions = Put(@, prefix, <<existing>>)], "eq_member")
          [] at = "eq_member" ->
               IF ~Held THEN Go(tab, "raised")
               ELSE Go(tab, IF ~InList(tab.collisions[prefix], claimant) THEN "eq_append"
                            ELSE "warn")
          [] at = "eq_append" ->
               IF ~Held THEN Go(tab, "raised")
               ELSE Go([tab EXCEPT !.collisions = Put(@, prefix, Append(@[prefix], claimant))],
                       "warn")
          [] at = "warn" ->
               Go([tab EXCEPT !.warnings = @ + 1], "return")

\* a thread runs the statement of _register_prefix it is at; when the call
\* returns, the next call is the one for the pack's next alias, or else the loop
\* over packs goes on to its next pack
RegisterStep(t) ==
    /\ pc[t] \in RegisterLabels
    /\ LET e    == Head(todo[t])
           regs == Registrations(e)
           n    == RegisterStatement(Current, pc[t], regs[frame[t].j + 1],
                                     EntryQualified(e), e.pack.priority, frame[t].existing)
       IN  /\ Store(n.tab)
           /\ IF n.at /= "return"
              THEN /\ pc' = [pc EXCEPT ![t] = n.at]
                   /\ frame' = [frame EXCEPT ![t].existing = n.existing]
                   /\ UNCHANGED todo
              ELSE IF frame[t].j + 1 < Len(regs)
              THEN /\ pc' = [pc EXCEPT ![t] = "reg_check"]
                   /\ frame' = [frame EXCEPT ![t] = [NoFrame EXCEPT !.j = frame[t].j + 1]]
                   /\ UNCHANGED todo
              ELSE /\ pc' = [pc EXCEPT ![t] = IF Tail(todo[t]) = <<>> THEN "overrides"
                                              ELSE "store_pack"]
                   /\ frame' = [frame EXCEPT ![t] = NoFrame]
                   /\ todo' = [todo EXCEPT ![t] = Tail(@)]
    /\ UNCHANGED <<config, _discovered, enumerations, result, gen>>

\* "if target_qualified in self._packs", for the next item of the loop over
\* self._prefix_map.items()
OverrideTest(t) ==
    /\ pc[t] = "overrides"
    /\ frame[t].k <= Len(_prefix_map)
    /\ LET target_qualified == _prefix_map[frame[t].k][2]
       IN  IF target_qualified \in PackKeys(_packs)
           THEN /\ pc' = [pc EXCEPT ![t] = "override_store"]
                /\ UNCHANGED frame
           ELSE /\ frame' = [frame EXCEPT ![t].k = @ + 1]
                /\ UNCHANGED pc
    /\ UNCHANGED <<config, _packs, _prefixes, _collisions, _discovered, warnings,
                   enumerations, result, gen, todo>>

\* self._prefixes[alias.lower()] = target_qualified
OverrideStore(t) ==
    /\ pc[t] = "override_store"
    /\ LET alias            == _prefix_map[frame[t].k][1]
           target_qualified == _prefix_map[frame[t].k][2]
       IN  _prefixes' = Put(_prefixes, Lower(alias), target_qualified)
    /\ pc' = [pc EXCEPT ![t] = "overrides"]
    /\ frame' = [frame EXCEPT ![t].k = @ + 1]
    /\ UNCHANGED <<config, _packs, _collisions, _discovered, warnings, enumerations,
                   result, gen, todo>>

\* self._discovered = True
SetFlag(t) ==
    /\ pc[t] = "overrides"
    /\ frame[t].k > Len(_prefix_map)
    /\ _discovered' = TRUE
    /\ pc' = [pc EXCEPT ![t] = "done"]
    /\ UNCHANGED <<config, _packs, _prefixes, _collisions, warnings, enumerations,
                   result, gen, todo, frame>>

ThreadNext ==
    \E t \in Threads :
        \/ Enter(t)
        \/ Enumerate(t)
        \/ StorePack(t)
        \/ StorePrefix(t)
        \/ RegisterStep(t)
        \/ OverrideTest(t)
        \/ OverrideStore(t)
        \/ SetFlag(t)

ThreadSpec == ThreadInit /\ [][ThreadNext]_vars

----------------------------------------------------------------------------
(* Queries on a constructed registry: the private _resolve_name next to        *)
(* discover() and get_resource()                                              *)

\* the names passed to _resolve_name
ResolveNames ==
    { <<"r">>, <<"s">>, <<"z">>, <<"Q", ":", "s">>, <<"a", "/", "p", ":", "r">> }

\* the blocklists of the queried registries: empty, or one short name and one
\* qualified name
QueryBlocklists == { {}, { <<"Q">>, <<"a", "/", "p">> } }

QueryInit ==
    /\ eps = None
    /\ entry_points \in Adapters
    /\ phase = "ready"
    /\ default_prefix_arg = None
    /\ _blocklist \in QueryBlocklists
    /\ _prefix_map \in { m \in PrefixMaps : Len(m) <= 1 }
    /\ _packs = <<>>
    /\ _prefixes = EmptyDict
    /\ _collisions = EmptyDict
    /\ _discovered = FALSE
    /\ warnings = 0
    /\ enumerations = 0
    /\ result = NoResult
    /\ pc = [t \in Threads |-> "idle"]
    /\ todo = [t \in Threads |-> <<>>]
    /\ frame = [t \in Threads |-> NoFrame]
    /\ gen = NoGen

QueryNext ==
    \/ Discover
    \/ \E n \in ResolveNames : CallResolveName(n)
    \/ \E n \in CallNames : GetResource(n)

QuerySpec == QueryInit /\ [][QueryNext]_vars

----------------------------------------------------------------------------
(* Discovery from the entry points themselves: _get_entry_points() loads and  *)
(* calls each factory and normalises what it returns                          *)

LoadInit ==
    /\ eps \in EntryPointLists
    /\ entry_points = GetEntryPoints(eps)
    /\ phase = "ready"
    /\ default_prefix_arg = None
    /\ _blocklist = {}
    /\ _prefix_map = <<>>
    /\ _packs = <<>>
    /\ _prefixes = EmptyDict
    /\ _collisions = EmptyDict
    /\ _discovered = FALSE
    /\ warnings = 0
    /\ enumerations = 0
    /\ result = NoResult
    /\ pc = [t \in Threads |-> "idle"]
    /\ todo = [t \in Threads |-> <<>>]
    /\ frame = [t \in Threads |-> NoFrame]
    /\ gen = NoGen

LoadNext ==
    \/ Discover
    \/ ListPacks
    \/ NextItem
    \/ GetPrefixMap

LoadSpec == LoadInit /\ [][LoadNext]_vars

----------------------------------------------------------------------------
(* What a caller holds after get_prefix_map() and get_prefix_collisions():    *)
(* dict(self._prefixes) and dict(self._collisions) are new dicts, but the     *)
(* values of the second are the ledger's own list objects.  The caller then   *)
(* changes what it was given.                                                 *)

\* a list the caller works on holds at most this many names
MaxListLen == 3

\* the dict the last call returned, as the caller has changed it since
Returned == result.out.value

\* the keys of the returned dict that the caller has bound to a value of its own
Rebound == IF "rebound" \in DOMAIN result THEN result.rebound ELSE {}

\* the caller holds a dict returned by one of the two operations
HoldsDict ==
    /\ phase = "ready"
    /\ result.op \in {"get_prefix_map", "get_prefix_collisions"}
    /\ result.out.kind = "ok"

\* the caller's dict becomes value, with the keys in rebound bound by the caller
Hold(value, rebound) ==
    result' = [op |-> result.op, out |-> [kind |-> "ok", value |-> value],
               rebound |-> rebound]

\* returned[k] = v for a value v the caller made: a qualified name, or a new list
\* holding that name
CallerSetItem(k, q) ==
    /\ HoldsDict
    /\ Hold(Put(Returned, k, IF result.op = "get_prefix_map" THEN q ELSE <<q>>),
            Rebound \cup {k})
    /\ UNCHANGED <<config, _packs, _prefixes, _collisions, _discovered, warnings,
                   enumerations, threads, gen>>

\* del returned[k]
CallerDelItem(k) ==
    /\ HoldsDict
    /\ k \in DOMAIN Returned
    /\ Hold(Del(Returned, k), Rebound \cup {k})
    /\ UNCHANGED <<config, _packs, _prefixes, _collisions, _discovered, warnings,
                   enumerations, threads, gen>>

\* returned[k].append(q): a list that came with the dict is the list the ledger holds
CallerAppend(k, q) ==
    /\ HoldsDict
    /\ result.op = "get_prefix_collisions"
    /\ k \in DOMAIN Returned
    /\ Len(Returned[k]) < MaxListLen
    /\ Hold(Put(Returned, k, Append(Returned[k], q)), Rebound)
    /\ _collisions' = IF k \in Rebound THEN _collisions
                      ELSE Put(_collisions, k, Append(_collisions[k], q))
    /\ UNCHANGED <<config, _packs, _prefixes, _discovered, warnings, enumerations,
                   threads, gen>>

\* returned[k].remove(q), for a name the list holds
CallerRemove(k, q) ==
    /\ HoldsDict
    /\ result.op = "get_prefix_collisions"
    /\ k \in DOMAIN Returned
    /\ InList(Returned[k], q)
    /\ Hold(Put(Returned, k, ListRemove(Returned[k], q)), Rebound)
    /\ _collisions' = IF k \in Rebound THEN _collisions
                      ELSE Put(_collisions, k, ListRemove(_collisions[k], q))
    /\ UNCHANGED <<config, _packs, _prefixes, _discovered, warnings, enumerations,
                   threads, gen>>

\* the keys and the names the caller uses
CallerKeys == { <<"p">>, <<"z">> }
CallerValues == { <<"a", "/", "p">>, <<"z", "/", "z">> }

SnapshotInit ==
    /\ eps = None
    /\ entry_points \in Adapters
    /\ phase = "ready"
    /\ default_prefix_arg = None
    /\ _blocklist = {}
    /\ _prefix_map = <<>>
    /\ _packs = <<>>
    /\ _prefixes = EmptyDict
    /\ _collisions = EmptyDict
    /\ _discovered = FALSE
    /\ warnings = 0
    /\ enumerations = 0
    /\ result = NoResult
    /\ pc = [t \in Threads |-> "idle"]
    /\ todo = [t \in Threads |-> <<>>]
    /\ frame = [t \in Threads |-> NoFrame]
    /\ gen = NoGen

SnapshotNext ==
    \/ GetPrefixMap
    \/ GetPrefixCollisions
    \/ \E k \in CallerKeys, q \in CallerValues : CallerSetItem(k, q)
    \/ \E k \in CallerKeys : CallerDelItem(k)
    \/ \E k \in CallerKeys, q \in CallerValues : CallerAppend(k, q)
    \/ \E k \in CallerKeys, q \in CallerValues : CallerRemove(k, q)

SnapshotSpec == SnapshotInit /\ [][SnapshotNext]_vars

----------------------------------------------------------------------------
(* Registries with overrides: discover() on every adapter with one of these  *)
(* prefix maps                                                                *)

\* the prefix maps of these registries: none, an alias in upper case, an alias
\* that packs declare too, an alias that holds a colon
OpsPrefixMaps ==
    { <<>>,
      << << <<"X">>, <<"a", "/", "p">> >> >>,
      << << <<"x">>, <<"B", "/", "p">> >> >>,
      << << <<"x", ":", "x">>, <<"a", "/", "p">> >> >> }

\* the names passed to _resolve_name
OpsResolveNames ==
    { <<"p", ":", "r">>, <<"Q", ":", "s">>, <<"X", ":", "r">>,
      <<"a", "/", "P", ":", "r">>, <<"x", ":", "x", ":", "r">>,
      <<"p", ":", "r", ":", "s">> }

\* the names passed to _resolve_name between the other operations
OpsProbeNames == { <<"p", ":", "r">>, <<"X", ":", "r">> }

\* the names passed to get_resource
OpsCallNames == { <<"x", ":", "r">>, <<"a", "/", "p", ":", "s">> }

\* the filters passed to list_resources: none, the empty string, a pack name in
\* upper case, an override alias in upper case, a qualified name that is a key of
\* the pack table as it stands, one that is a key only in lower case
OpsListFilters ==
    { None, <<>>, <<"P">>, <<"X">>, <<"a", "/", "p">>, <<"a", "/", "Q">> }

OpsInit ==
    /\ eps = None
    /\ entry_points \in Adapters
    /\ phase = "ready"
    /\ default_prefix_arg = None
    /\ _blocklist = {}
    /\ _prefix_map \in OpsPrefixMaps
    /\ _packs = <<>>
    /\ _prefixes = EmptyDict
    /\ _collisions = EmptyDict
    /\ _discovered = FALSE
    /\ warnings = 0
    /\ enumerations = 0
    /\ result = NoResult
    /\ pc = [t \in Threads |-> "idle"]
    /\ todo = [t \in Threads |-> <<>>]
    /\ frame = [t \in Threads |-> NoFrame]
    /\ gen = NoGen

\* the same registries over the adapters of up to one tuple for each qualified name
TablesInit ==
    /\ eps = None
    /\ entry_points \in TableAdapters
    /\ phase = "ready"
    /\ default_prefix_arg = None
    /\ _blocklist = {}
    /\ _prefix_map \in OpsPrefixMaps
    /\ _packs = <<>>
    /\ _prefixes = EmptyDict
    /\ _collisions = EmptyDict
    /\ _discovered = FALSE
    /\ warnings = 0
    /\ enumerations = 0
    /\ result = NoResult
    /\ pc = [t \in Threads |-> "idle"]
    /\ todo = [t \in Threads |-> <<>>]
    /\ frame = [t \in Threads |-> NoFrame]
    /\ gen = NoGen

----------------------------------------------------------------------------
(* Name resolution: _resolve_name before and after discover(), and            *)
(* get_resource                                                               *)

ResolveNext ==
    \/ Discover
    \/ \E n \in OpsResolveNames : CallResolveName(n)
    \/ \E n \in OpsCallNames : GetResource(n)

ResolveSpec == OpsInit /\ [][ResolveNext]_vars

----------------------------------------------------------------------------
(* The tables alone: discover() and the two operations that return the prefix *)
(* table and the collision ledger                                             *)

TablesNext ==
    \/ Discover
    \/ GetPrefixMap
    \/ GetPrefixCollisions

TablesSpec == TablesInit /\ [][TablesNext]_vars

----------------------------------------------------------------------------
(* Every operation of a constructed registry, in any order: discover(),       *)
(* _resolve_name, get_resource, get_prefix_map, get_prefix_collisions, the    *)
(* calls of list_resources and list_packs, and next() on the generator the    *)
(* caller holds, with any of the others between two items                     *)

\* a tuple the adapter yields for a pack of this module's contents
SessionTuple(dist_name, pack_name, has_get_priority, priority, aliases) ==
    [dist_name |-> dist_name, pack_name |-> pack_name,
     pack |-> [has_get_priority |-> has_get_priority, priority |-> priority,
               resources |-> PackContents(dist_name, pack_name),
               broken |-> {},
               listing |-> PackListing(dist_name, pack_name)],
     aliases |-> aliases]

\* a tuple the adapter yields for a ZippedResourcePack over the archive (a subclass
\* that adds the protocol's get_priority)
ZippedTuple(dist_name, pack_name, priority, aliases) ==
    [dist_name |-> dist_name, pack_name |-> pack_name,
     pack |-> [has_get_priority |-> TRUE, priority |-> priority,
               resources |-> ZipContents(ZipArchive),
               broken |-> ZipBroken(ZipArchive),
               listing |-> ZipListing(ZipArchive)],
     aliases |-> aliases]

\* the packs of these sessions: under each qualified name a pack of priority 1
\* that declares the alias x, so that pack names and aliases collide, a variant of
\* priority 2, for two of them a variant without get_priority, and under one a
\* zipped pack whose archive has a member that cannot be read
SessionTuples ==
    { SessionTuple(<<"a">>, <<"p">>, TRUE, 1, << <<"x">> >>),
      SessionTuple(<<"a">>, <<"p">>, TRUE, 2, <<>>),
      SessionTuple(<<"B">>, <<"p">>, TRUE, 1, << <<"x">> >>),
      SessionTuple(<<"B">>, <<"p">>, TRUE, 2, << <<"P">> >>),
      SessionTuple(<<"B">>, <<"p">>, FALSE, 0, <<>>),
      SessionTuple(<<"a">>, <<"Q">>, TRUE, 1, << <<"x">> >>),
      SessionTuple(<<"a">>, <<"Q">>, TRUE, 2, << <<"x">> >>),
      SessionTuple(<<"a">>, <<"Q">>, FALSE, 0, <<>>),
      ZippedTuple(<<"a">>, <<"Q">>, 2, << <<"x">> >>) }

\* what the adapter enumerates in these sessions
SessionAdapters ==
    { a \in SeqsUpTo(SessionTuples, MaxEntries) :
        \A i, j \in 1..Len(a) : i /= j => EntryQualified(a[i]) /= EntryQualified(a[j]) }

OpsSessionInit ==
    /\ eps = None
    /\ entry_points \in SessionAdapters
    /\ phase = "ready"
    /\ default_prefix_arg = None
    /\ _blocklist = {}
    /\ _prefix_map \in OpsPrefixMaps
    /\ _packs = <<>>
    /\ _prefixes = EmptyDict
    /\ _collisions = EmptyDict
    /\ _discovered = FALSE
    /\ warnings = 0
    /\ enumerations = 0
    /\ result = NoResult
    /\ pc = [t \in Threads |-> "idle"]
    /\ todo = [t \in Threads |-> <<>>]
    /\ frame = [t \in Threads |-> NoFrame]
    /\ gen = NoGen

OpsNext ==
    \/ Discover
    \/ \E n \in OpsProbeNames : CallResolveName(n)
    \/ \E n \in OpsCallNames : GetResource(n)
    \/ \E f \in OpsListFilters : ListResources(f)
    \/ ListPacks
    \/ NextItem
    \/ GetPrefixMap
    \/ GetPrefixCollisions

OpsSpec == OpsSessionInit /\ [][OpsNext]_vars

----------------------------------------------------------------------------
(* The search for a bare name, over registries that also hold zipped packs    *)
(* with a member that cannot be read: discover(), _resolve_name and           *)
(* get_resource                                                               *)

\* the tuples of these registries: those of short aliases, and zipped packs of
\* either priority under two of the qualified names
SearchTuples ==
    ShortTuples \cup
    { ZippedTuple(<<"a">>, <<"Q">>, 1, <<>>),
      ZippedTuple(<<"a">>, <<"Q">>, 2, << <<"x">> >>),
      ZippedTuple(<<"B">>, <<"p">>, 1, << <<"x">> >>),
      ZippedTuple(<<"B">>, <<"p">>, 2, <<>>) }

SearchAdapters ==
    { a \in SeqsUpTo(SearchTuples, MaxEntries) :
        \A i, j \in 1..Len(a) : i /= j => EntryQualified(a[i]) /= EntryQualified(a[j]) }

\* the names passed to _resolve_name: none holds a colon; b is the member the
\* zipped packs cannot read
SearchNames == BareNames \cup { <<"b">> }

\* the names passed to get_resource: the unreadable member, bare and under an
\* alias, and a readable one
SearchCallNames == { <<"b">>, <<"x", ":", "b">>, <<"x", ":", "s">> }

SearchInit ==
    /\ eps = None
    /\ entry_points \in SearchAdapters
    /\ phase = "ready"
    /\ default_prefix_arg = None
    /\ _blocklist = {}
    /\ _prefix_map = <<>>
    /\ _packs = <<>>
    /\ _prefixes = EmptyDict
    /\ _collisions = EmptyDict
    /\ _discovered = FALSE
    /\ warnings = 0
    /\ enumerations = 0
    /\ result = NoResult
    /\ pc = [t \in Threads |-> "idle"]
    /\ todo = [t \in Threads |-> <<>>]
    /\ frame = [t \in Threads |-> NoFrame]
    /\ gen = NoGen

SearchNext ==
    \/ Discover
    \/ \E n \in SearchNames : CallResolveName(n)
    \/ \E n \in SearchCallNames : GetResource(n)

SearchSpec == SearchInit /\ [][SearchNext]_vars

----------------------------------------------------------------------------
(* Vocabulary of the properties *)

\* the registry exists and its discovery pass has completed
Done == phase = "ready" /\ _discovered

\* _resolve_name(name) on the tables as they stand
Res(name) == ResolveName(_packs, _prefixes, _collisions, name)

NoTables == Tables(<<>>, EmptyDict, EmptyDict, 0)

\* the tables one uninterrupted pass builds from the configuration
FirstPass == DiscoverPass(NoTables, entry_points, _blocklist, _prefix_map)

\* the tables as pack-name and alias registration leave them, before the overrides
AutoTables == ProcessPacks(NoTables, SortPacks(CollectPacks(entry_points, _blocklist)))

Blocked(e) == e.pack_name \in _blocklist \/ EntryQualified(e) \in _blocklist

\* the registered packs that claim prefix x by pack name or by a declared alias
Claimants(x) ==
    { qualified_name(_packs[i]) : i \in
        { i \in 1..Len(_packs) :
            \/ Lower(_packs[i].pack_name) = x
            \/ \E k \in 1..Len(_packs[i].aliases) : Lower(_packs[i].aliases[k]) = x } }

\* the target of the last prefix-map entry, among those whose alias lowercases to x
\* and whose target is a registered pack; None when there is none
LastApplied(x) ==
    LET hits == { k \in 1..Len(_prefix_map) :
                    Lower(_prefix_map[k][1]) = x /\ _prefix_map[k][2] \in PackKeys(_packs) }
    IN  IF hits = {} THEN None
        ELSE _prefix_map[CHOOSE k \in hits : \A j \in hits : j <= k][2]

\* get_priority() of the registered pack q
PriorityOf(q) == PackAt(_packs, q).pack.priority

\* the claimants of prefix x that no other claimant outranks
TopClaimants(x) ==
    { q \in Claimants(x) : \A q2 \in Claimants(x) : PriorityOf(q2) <= PriorityOf(q) }

\* the short prefixes some registered pack claims by pack name or alias
ShortPrefixes == { x \in { <<"p">>, <<"q">>, <<"x">> } : Claimants(x) /= {} }

\* the entries of a list, as a set
Elements(l) == { l[k] : k \in 1..Len(l) }

----------------------------------------------------------------------------
(* C1 *)

\* C1: two tuples of distinct distributions that declare the same pack_name with
\* equal standing (both without a priority, or both with the same one) put the
\* lowercased pack_name in the collision ledger with both qualified names listed,
\* and '<pack_name>:<resource>' fails as ambiguous, naming both
C1_CollisionDetected ==
    Done =>
        \A i, j \in 1..Len(entry_points) :
            LET e1 == entry_points[i]
                e2 == entry_points[j]
                p  == Lower(e1.pack_name)
                both == { EntryQualified(e1), EntryQualified(e2) }
            IN  ( /\ e1.dist_name /= e2.dist_name
                  /\ e1.pack_name = e2.pack_name
                  /\ e1.pack.has_get_priority = e2.pack.has_get_priority
                  /\ e1.pack.priority = e2.pack.priority
                  /\ ~Blocked(e1) /\ ~Blocked(e2) )
                =>
                ( /\ p \in DOMAIN _collisions
                  /\ both \subseteq { _collisions[p][k] : k \in 1..Len(_collisions[p]) }
                  /\ \A r \in ResourceNames :
                        /\ Res(Prefixed(e1.pack_name, r)).kind = "AmbiguousPrefix"
                        /\ both \subseteq Res(Prefixed(e1.pack_name, r)).listed )

----------------------------------------------------------------------------
(* C2 *)

\* C2: every pack of the pack table resolves by its qualified name, whatever the
\* collisions, priorities and overrides, and by its pack name when no other pack
\* claims that name (the pack-name half is stated for the packs that do not
\* declare their own name again as an alias, which is C9's case)
C2_PackAlwaysReachable ==
    Done =>
        \A i \in 1..Len(_packs) : \A r \in ResourceNames :
            LET q == qualified_name(_packs[i])
                p == _packs[i].pack_name
            IN  /\ Res(Prefixed(q, r)).kind = "ok"
                /\ Res(Prefixed(q, r)).pack = q
                /\ Res(Prefixed(q, r)).resource = r
                /\ ( /\ Claimants(Lower(p)) = {q}
                      /\ \A k \in 1..Len(_packs[i].aliases) :
                            Lower(_packs[i].aliases[k]) /= Lower(p) )
                   =>
                      /\ Res(Prefixed(p, r)).kind = "ok"
                      /\ Res(Prefixed(p, r)).pack = q
                      /\ Res(Prefixed(p, r)).resource = r

----------------------------------------------------------------------------
(* C3 *)

\* C3: a prefix-map entry alias -> target with a registered target makes
\* '<alias>:<resource>' resolve to the target, also when the alias is in the
\* collision ledger (stated for the entries whose alias no other entry of the map
\* repeats in another case)
C3_OverrideBeatsCollision ==
    Done =>
        \A k \in 1..Len(_prefix_map) : \A r \in ResourceNames :
            LET alias  == _prefix_map[k][1]
                target == _prefix_map[k][2]
            IN  ( /\ target \in PackKeys(_packs)
                  /\ \A j \in 1..Len(_prefix_map) :
                        j /= k => Lower(_prefix_map[j][1]) /= Lower(alias) )
                =>
                ( /\ Res(Prefixed(alias, r)).kind = "ok"
                  /\ Res(Prefixed(alias, r)).pack = target
                  /\ Res(Prefixed(alias, r)).resource = r )

----------------------------------------------------------------------------
(* C4 *)

\* C4 as claimed: after discovery, each prefix-map entry whose target is registered
\* has its (lowercased) alias mapped to that target, and each entry whose target is
\* not registered leaves the alias as pack-name and alias registration produced it
C4_EveryOverrideApplied ==
    Done =>
        \A k \in 1..Len(_prefix_map) :
            LET x      == Lower(_prefix_map[k][1])
                target == _prefix_map[k][2]
            IN  IF target \in PackKeys(_packs)
                THEN x \in DOMAIN _prefixes /\ _prefixes[x] = target
                ELSE /\ x \in DOMAIN _prefixes <=> x \in DOMAIN AutoTables.prefixes
                     /\ x \in DOMAIN _prefixes => _prefixes[x] = AutoTables.prefixes[x]

\* C4, amended: the overrides are applied after all packs, in the map's order, to the
\* lowercased alias: a prefix is mapped to the target of the last entry with that
\* lowercased alias and a registered target, whatever registration put there; a
\* prefix no such entry names is exactly as registration produced it; and
\* discover() raises nothing
C4_OverridesApplied ==
    Done =>
        /\ DOMAIN _prefixes =
              DOMAIN AutoTables.prefixes
                \cup { x \in { Lower(_prefix_map[k][1]) : k \in 1..Len(_prefix_map) } :
                         LastApplied(x) /= None }
        /\ \A x \in DOMAIN _prefixes :
              _prefixes[x] = IF LastApplied(x) /= None THEN LastApplied(x)
                             ELSE AutoTables.prefixes[x]
        /\ _packs = AutoTables.packs
        /\ _collisions = AutoTables.collisions
        /\ (result.op = "discover" => result.out.kind = "ok")

\* an override with a registered target replaced the owner registration chose, and
\* another override, whose target is not registered, was passed over
C4_Witness ==
    /\ Done
    /\ result.op = "discover"
    /\ \E k \in 1..Len(_prefix_map) :
          /\ _prefix_map[k][2] \in PackKeys(_packs)
          /\ Lower(_prefix_map[k][1]) \in DOMAIN AutoTables.prefixes
          /\ AutoTables.prefixes[Lower(_prefix_map[k][1])] /= _prefix_map[k][2]
          /\ _prefixes[Lower(_prefix_map[k][1])] = _prefix_map[k][2]
    /\ \E k \in 1..Len(_prefix_map) : _prefix_map[k][2] \notin PackKeys(_packs)

----------------------------------------------------------------------------
(* C5 *)

\* C5: get_resource of a name without a colon, on a registry built without a default
\* prefix, fails with NoDefaultPrefix whatever the packs hold (stated for the case
\* the claim stresses: some registered pack holds a resource of that name)
C5_BareNameNeedsDefaultPrefix ==
    ( /\ phase = "ready"
      /\ default_prefix_arg = None
      /\ result.op = "get_resource"
      /\ ~Contains(result.name, ":")
      /\ \E i \in 1..Len(_packs) : result.name \in _packs[i].pack.resources )
    => result.out.kind = "NoDefaultPrefix"

----------------------------------------------------------------------------
(* C6 *)

\* C6: a registry can be constructed with a default prefix d, and then every
\* colon-free name x resolves exactly as d + ':' + x does
C6_DefaultPrefixRewrite ==
    default_prefix_arg /= None =>
        /\ phase = "ready"
        /\ \A x \in BareNames : Res(x) = Res(Prefixed(default_prefix_arg, x))

----------------------------------------------------------------------------
(* C7 *)

\* C7: however many calls of discover(), direct or made by a query operation, have
\* completed, the adapter was enumerated exactly once and the pack table, the prefix
\* table and the collision ledger are those of a single call
C7_IdempotentDiscovery ==
    Done =>
        /\ enumerations = 1
        /\ _packs = FirstPass.packs
        /\ _prefixes = FirstPass.prefixes
        /\ _collisions = FirstPass.collisions
        /\ warnings = FirstPass.warnings

\* a later call of discover() found the flag set, on a registry that holds a pack
C7_Witness ==
    /\ Done
    /\ result.op = "discover"
    /\ result.repeated
    /\ enumerations = 1
    /\ _packs /= <<>>

----------------------------------------------------------------------------
(* C8 *)

AllReturned == \A t \in Threads : pc[t] \in {"done", "raised"}

\* C8: when several threads call discover() on a fresh registry, the adapter is
\* enumerated at most once, and when all calls have returned the tables are those
\* of one sequential discover()
C8_OnePassUnderConcurrency ==
    /\ enumerations <= 1
    /\ AllReturned =>
          /\ _packs = FirstPass.packs
          /\ _prefixes = FirstPass.prefixes
          /\ _collisions = FirstPass.collisions

----------------------------------------------------------------------------
(* C9 *)

\* C9: a pack that declares an alias equal, case-insensitively, to its own pack
\* name, a name no other pack claims, leaves that prefix out of the collision
\* ledger, keeps it resolving to the pack and, when it is the only pack, emits no
\* PrefixCollisionWarning
C9_SamePackReRegistrationNoOp ==
    Done =>
        \A i \in 1..Len(_packs) :
            LET q   == qualified_name(_packs[i])
                own == Lower(_packs[i].pack_name)
            IN  ( /\ \E k \in 1..Len(_packs[i].aliases) : Lower(_packs[i].aliases[k]) = own
                  /\ Claimants(own) = {q} )
                =>
                ( /\ own \notin DOMAIN _collisions
                  /\ _prefixes[own] = q
                  /\ \A r \in ResourceNames :
                        /\ Res(Prefixed(_packs[i].pack_name, r)).kind = "ok"
                        /\ Res(Prefixed(_packs[i].pack_name, r)).pack = q
                  /\ Len(_packs) = 1 => warnings = 0 )

----------------------------------------------------------------------------
(* C10 *)

\* C10, its "only if" half (the claim is both halves, so a ledger key that a single
\* qualified name claimed refutes it): after discovery every key of the collision
\* ledger was claimed, by pack name or alias, by more than one distinct qualified
\* name; the overrides add no ledger entry
C10_LedgerOnlyIfContended ==
    Done =>
        /\ \A x \in DOMAIN _collisions : Cardinality(Claimants(x)) > 1
        /\ _collisions = AutoTables.collisions

----------------------------------------------------------------------------
(* C11 *)

\* C11: a short prefix that packs of different priorities claim, one of them
\* outranking all the others, is mapped by the prefix table to that pack, is not in
\* the collision ledger and resolves to that pack (stated for the prefixes no
\* prefix-map entry overrides); and a ledger entry lists packs of one priority
\* only, the first of them being the owner the prefix table keeps
C11_HigherPriorityWins ==
    Done =>
        \A x \in ShortPrefixes :
            LastApplied(x) = None =>
                /\ ( Cardinality(Claimants(x)) >= 2 /\ Cardinality(TopClaimants(x)) = 1 )
                   =>
                   ( /\ _prefixes[x] \in TopClaimants(x)
                     /\ x \notin DOMAIN _collisions
                     /\ \A r \in ResourceNames :
                           /\ Res(Prefixed(x, r)).kind = "ok"
                           /\ Res(Prefixed(x, r)).pack \in TopClaimants(x) )
                /\ x \in DOMAIN _collisions =>
                      /\ \A q1, q2 \in Elements(_collisions[x]) :
                            PriorityOf(q1) = PriorityOf(q2)
                      /\ _prefixes[x] = _collisions[x][1]

----------------------------------------------------------------------------
(* C12 *)

\* the registered packs whose get_resource(name) does not raise ValueError: it
\* returns a ResourceContent or raises another exception
NotValueError(name) ==
    { i \in 1..Len(_packs) : name \in _packs[i].pack.resources \cup _packs[i].pack.broken }

\* the registered packs tried before _packs[i]: those of higher priority, and
\* those of equal priority stored earlier
TriedBefore(i) ==
    { j \in 1..Len(_packs) :
        \/ _packs[j].pack.priority > _packs[i].pack.priority
        \/ /\ _packs[j].pack.priority = _packs[i].pack.priority
           /\ j < i }

\* C12 as claimed: _resolve_name of a name without a colon returns (q, name) for
\* the pack q that comes first, when the pack table is ranked by descending
\* priority and equal priorities in the table's insertion order, among the packs
\* whose get_resource(name) does not raise ValueError; every pack ranked before q
\* was tried and no pack after it; when every pack raises ValueError it fails with
\* "Resource not found" after trying every pack
C12_BareNameSearch ==
    ( result.op = "_resolve_name" /\ ~Contains(result.name, ":") ) =>
        IF NotValueError(result.name) = {}
        THEN /\ result.out.kind = "ResourceNotFound"
             /\ result.out.probes = Len(_packs)
        ELSE \E i \in NotValueError(result.name) :
                /\ TriedBefore(i) \cap NotValueError(result.name) = {}
                /\ result.out.kind = "ok"
                /\ result.out.pack = qualified_name(_packs[i])
                /\ result.out.resource = result.name
                /\ result.out.probes = Cardinality(TriedBefore(i)) + 1

\* C12, amended: the search ends at the pack q that comes first, in that ranking,
\* among the packs whose get_resource(name) does not raise ValueError: it returns
\* (q, name) when q's get_resource(name) returned, and when q's get_resource(name)
\* raised another exception that exception leaves _resolve_name; either way every
\* pack ranked before q was tried and no pack after it; when every pack raises
\* ValueError it fails with "Resource not found" after trying every pack
C12_BareNameSearchOrError ==
    ( result.op = "_resolve_name" /\ ~Contains(result.name, ":") ) =>
        IF NotValueError(result.name) = {}
        THEN /\ result.out.kind = "ResourceNotFound"
             /\ result.out.probes = Len(_packs)
        ELSE \E i \in NotValueError(result.name) :
                /\ TriedBefore(i) \cap NotValueError(result.name) = {}
                /\ result.out.probes = Cardinality(TriedBefore(i)) + 1
                /\ IF result.name \in _packs[i].pack.broken
                   THEN result.out.kind = "PackError"
                   ELSE /\ result.out.kind = "ok"
                        /\ result.out.pack = qualified_name(_packs[i])
                        /\ result.out.resource = result.name

\* a bare name that two registered packs of different priorities hold was resolved
\* to the higher one at the first try
C12_Witness ==
    /\ Done
    /\ result.op = "_resolve_name"
    /\ ~Contains(result.name, ":")
    /\ result.out.kind = "ok"
    /\ result.out.probes = 1
    /\ \E i, j \in 1..Len(_packs) :
          /\ result.name \in _packs[i].pack.resources
          /\ result.name \in _packs[j].pack.resources
          /\ _packs[i].pack.priority > _packs[j].pack.priority
          /\ result.out.pack = qualified_name(_packs[i])

----------------------------------------------------------------------------
(* C13 *)

\* the adapter's tuples that the blocklist lets through
Unblocked == SelectSeq(entry_points, LAMBDA e : ~Blocked(e))

\* C13: an adapter tuple whose pack_name or qualified name is in the blocklist is
\* not in the pack table, owns no prefix, is in no ledger list, and the tables are
\* those of a registry that never saw it; a name that refers to it by qualified
\* name fails with UnknownQualifiedPack, and by pack name with UnknownPrefix unless
\* a registered pack claims that name or a prefix-map entry maps it
C13_BlockedPackAbsent ==
    Done =>
        /\ \A i \in 1..Len(entry_points) :
              LET e == entry_points[i]
                  q == EntryQualified(e)
              IN  Blocked(e) =>
                    /\ q \notin PackKeys(_packs)
                    /\ \A x \in DOMAIN _prefixes : _prefixes[x] /= q
                    /\ \A x \in DOMAIN _collisions : q \notin Elements(_collisions[x])
                    /\ \A r \in ResourceNames :
                          /\ Res(Prefixed(q, r)).kind = "UnknownQualifiedPack"
                          /\ ( /\ Claimants(Lower(e.pack_name)) = {}
                               /\ LastApplied(Lower(e.pack_name)) = None )
                             => Res(Prefixed(e.pack_name, r)).kind = "UnknownPrefix"
        /\ LET t == DiscoverPass(NoTables, Unblocked, {}, _prefix_map)
           IN  /\ _packs = t.packs
               /\ _prefixes = t.prefixes
               /\ _collisions = t.collisions
               /\ warnings = t.warnings

\* a/p, which would have been registered, is blocked by its qualified name while
\* another pack is registered, and 'a/p:r' was refused as an unknown qualified pack
C13_Witness ==
    /\ Done
    /\ _packs /= <<>>
    /\ \E i \in 1..Len(entry_points) :
          /\ EntryQualified(entry_points[i]) = <<"a", "/", "p">>
          /\ EntryQualified(entry_points[i]) \in _blocklist
          /\ entry_points[i].pack.has_get_priority
    /\ result.op = "_resolve_name"
    /\ result.name = <<"a", "/", "p", ":", "r">>
    /\ result.out.kind = "UnknownQualifiedPack"

----------------------------------------------------------------------------
(* C14 *)

\* the entry point's factory loads, runs and returns something that normalises
\* without an exception to an object with get_resource and list_resources: the
\* Pack Capability Contract
Valid(ep) ==
    /\ ep.load = "ok"
    /\ ep.call = "ok"
    /\ HasAttr(ProviderOf(ep.result), "get_resource")
    /\ HasAttr(ProviderOf(ep.result), "list_resources")
    /\ ~(HasAttr(ep.result, "get_prefixes") /\ ep.result.prefixes.type = "raises")

\* the entry point's factory raises at load or call, or returns None or a tuple of
\* fewer than two items, or an object (alone or in a tuple) without a required
\* method, or one whose get_prefixes() raises
Bad(ep) == ~Valid(ep)

EpQualified(ep) == QualifiedName(DistName(ep), ep.name)

\* C14: a bad entry point is skipped, discover() raises nothing, and every valid
\* entry point of the list, before or after a bad one, is in the pack table and
\* resolves by its qualified name
C14_BadEntriesSkipped ==
    Done =>
        /\ result.op = "discover" => result.out.kind = "ok"
        /\ \A i \in 1..Len(eps) :
              Bad(eps[i]) => EpQualified(eps[i]) \notin PackKeys(_packs)
        /\ \A i \in 1..Len(eps) :
              ( Valid(eps[i]) /\ \E j \in 1..Len(eps) : Bad(eps[j]) ) =>
                  /\ EpQualified(eps[i]) \in PackKeys(_packs)
                  /\ \A r \in ResourceNames :
                        /\ Res(Prefixed(EpQualified(eps[i]), r)).kind = "ok"
                        /\ Res(Prefixed(EpQualified(eps[i]), r)).pack = EpQualified(eps[i])

----------------------------------------------------------------------------
(* C15 *)

\* C15: a factory result that, normalised, has get_resource and list_resources is
\* registered, with or without get_priority and get_prefixes: it is in the pack
\* table, list_packs() yields it, and its pack name resolves to it when no other
\* registered pack claims that name
C15_ConformingPackAccepted ==
    Done =>
        \A i \in 1..Len(eps) :
            Valid(eps[i]) =>
                /\ EpQualified(eps[i]) \in PackKeys(_packs)
                /\ ( result.op = "list_packs" /\ result.out.kind = "ok" )
                   => EpQualified(eps[i]) \in Elements(result.out.value)
                /\ Claimants(Lower(eps[i].name)) \subseteq { EpQualified(eps[i]) }
                   => \A r \in ResourceNames :
                         /\ Res(Prefixed(eps[i].name, r)).kind = "ok"
                         /\ Res(Prefixed(eps[i].name, r)).pack = EpQualified(eps[i])

----------------------------------------------------------------------------
(* C16 *)

\* C16: _resolve_name leaves the tables alone, does not enumerate the adapter,
\* gives the answer the tables determine, and calls no pack operation: it made no
\* get_resource call on any pack
C16_ResolutionPure ==
    result.op = "_resolve_name" =>
        /\ result.out = Res(result.name)
        /\ enumerations = (IF _discovered THEN 1 ELSE 0)
        /\ result.out.probes = 0

----------------------------------------------------------------------------
(* C17 *)

\* the orders in which an adapter can enumerate the tuples of l
Orderings(l) ==
    { [i \in 1..Len(l) |-> l[f[i]]] :
        f \in { g \in [1..Len(l) -> 1..Len(l)] :
                  \A i, j \in 1..Len(l) : i /= j => g[i] /= g[j] } }

\* C17: the prefix table and the collision ledger are the same for every order in
\* which the adapter enumerates its tuples: every prefix has the same owner and
\* every ledger entry the same claimants
C17_OrderIndependent ==
    Done =>
        \A l \in Orderings(entry_points) :
            LET t == DiscoverPass(NoTables, l, _blocklist, _prefix_map)
            IN  /\ t.prefixes = _prefixes
                /\ DOMAIN t.collisions = DOMAIN _collisions
                /\ \A x \in DOMAIN _collisions :
                      Elements(t.collisions[x]) = Elements(_collisions[x])

----------------------------------------------------------------------------
(* C18 *)

\* C18: list_packs() yields every key of the pack table once, in the table's
\* insertion order, and that order is ascending by qualified name
C18_ListPacksAscending ==
    ( result.op = "list_packs" /\ result.out.kind = "ok" ) =>
        LET value == result.out.value
        IN  /\ Len(value) = Len(_packs)
            /\ \A i \in 1..Len(value) : value[i] = qualified_name(_packs[i])
            /\ \A i, j \in 1..Len(value) : i /= j => value[i] /= value[j]
            /\ \A i, j \in 1..Len(value) : i < j => StrLess(value[i], value[j])

----------------------------------------------------------------------------
(* C19 *)

\* C19: get_resource(name) leaves the registry discovered; when _resolve_name fails
\* on the tables, that failure is the outcome; otherwise the outcome is what the
\* resolved pack's get_resource(resource_name) gives: its content when the pack
\* holds the resource, its not-found error when it does not (or the other
\* exception it raises), whatever the other packs hold
C19_GetResourceDelegates ==
    ( result.op = "get_resource" /\ result.out.kind /= "raised" ) =>
        /\ _discovered
        /\ LET r == Res(result.name)
           IN  IF r.kind /= "ok" THEN result.out = r
               ELSE /\ r.pack \in PackKeys(_packs)
                    /\ result.out.pack = r.pack
                    /\ result.out.resource = r.resource
                    /\ result.out.kind =
                          IF r.resource \in PackAt(_packs, r.pack).pack.broken
                          THEN "PackError"
                          ELSE IF r.resource \in PackAt(_packs, r.pack).pack.resources
                          THEN "content" ELSE "NotFound"

\* the resolved pack's not-found error reached the caller although another
\* registered pack holds a resource of that name
C19_Witness ==
    /\ result.op = "get_resource"
    /\ result.out.kind = "NotFound"
    /\ Contains(result.name, ":")
    /\ \E i \in 1..Len(_packs) :
          /\ qualified_name(_packs[i]) /= result.out.pack
          /\ result.out.resource \in _packs[i].pack.resources

----------------------------------------------------------------------------
(* C20 *)

\* the names the registered pack q enumerates
ListingOf(q) == PackAt(_packs, q).pack.listing

\* the infos are one per name q enumerates, in order, each carrying q
OnePerName(infos, q) ==
    /\ Len(infos) = Len(ListingOf(q))
    /\ \A k \in 1..Len(infos) :
          /\ infos[k].name = ListingOf(q)[k]
          /\ infos[k].pack = q
          /\ infos[k].content_type =
                (IF infos[k].name \in PackAt(_packs, q).pack.resources
                 THEN ContentType ELSE None)

\* C20 as claimed: list_resources(filter) yields nothing when the filter is neither
\* a key of the pack table nor a key of the prefix table, and otherwise one
\* ResourceInfo per name of the single matched pack
C20_FilterAsGiven ==
    ( result.op = "list_resources" /\ result.filter /= None
      /\ result.out.kind /= "raised" ) =>
        LET f == result.filter
        IN  /\ result.out.kind = "ok"
            /\ IF f \notin PackKeys(_packs) /\ f \notin DOMAIN _prefixes
               THEN result.out.value = <<>>
               ELSE \E q \in PackKeys(_packs) : OnePerName(result.out.value, q)

\* the infos attributed to pack q, in the order they were yielded
InfosFor(infos, q) ==
    LET OfPack(info) == info.pack = q
    IN  SelectSeq(infos, OfPack)

\* C20, amended: the filter is matched in lower case.  list_resources(filter) with
\* a non-empty filter raises nothing; it yields nothing when the lowercased filter
\* is neither a key of the pack table nor a key of the prefix table; otherwise the
\* matched pack is the pack-table key equal to the lowercased filter or else the
\* pack the prefix table gives it, and there is exactly one ResourceInfo per name
\* that pack enumerates, in order, each with that pack's qualified name, also when
\* the pack's get_resource raises for some of the names: the ResourceInfo of such a
\* name has content_type None and the enumeration goes on.  The empty string is
\* no filter: every registered pack is listed in that way.
C20_FilterLowercased ==
    ( result.op = "list_resources" /\ result.filter /= None ) =>
        LET f == Lower(result.filter)
        IN  /\ result.out.kind = "ok"
            /\ IF f = <<>>
               THEN /\ \A k \in 1..Len(result.out.value) :
                          result.out.value[k].pack \in PackKeys(_packs)
                    /\ \A q \in PackKeys(_packs) :
                          OnePerName(InfosFor(result.out.value, q), q)
               ELSE IF f \in PackKeys(_packs) THEN OnePerName(result.out.value, f)
               ELSE IF f \in DOMAIN _prefixes
               THEN /\ _prefixes[f] \in PackKeys(_packs)
                    /\ OnePerName(result.out.value, _prefixes[f])
               ELSE result.out.value = <<>>

\* a filter that only matches in lower case selected one of two registered packs,
\* a zipped pack that lists a member it cannot read before one it can: the
\* generator, run to its end, yielded both names, the first with content_type
\* None and the second with its content type
C20_Witness ==
    /\ result.op = "list_resources"
    /\ result.filter /= None
    /\ Lower(result.filter) /= result.filter
    /\ result.out.kind = "ok"
    /\ gen.done
    /\ Len(_packs) = 2
    /\ Len(result.out.value) = 2
    /\ result.out.value[1].name \notin PackAt(_packs, result.out.value[1].pack).pack.resources
    /\ result.out.value[1].content_type = None
    /\ result.out.value[2].content_type = ContentType

----------------------------------------------------------------------------
(* C21 *)

\* the caller has not touched the dict the last call returned
Untouched == "rebound" \notin DOMAIN result

\* C21: get_prefix_map() and get_prefix_collisions() leave the registry discovered,
\* and whatever the caller does to a returned dict or to a list in it, the prefix
\* table and the collision ledger stay as discovery built them, so that a later
\* call returns the same content again
C21_SnapshotsReadOnly ==
    ( phase = "ready"
      /\ result.op \in {"get_prefix_map", "get_prefix_collisions"}
      /\ result.out.kind = "ok" ) =>
        /\ _discovered
        /\ _prefixes = FirstPass.prefixes
        /\ _collisions = FirstPass.collisions
        /\ ( Untouched /\ result.op = "get_prefix_map" ) => Returned = FirstPass.prefixes
        /\ ( Untouched /\ result.op = "get_prefix_collisions" ) =>
              Returned = FirstPass.collisions

----------------------------------------------------------------------------
(* C22 *)

\* C22: once discover() has completed, no operation of the registry, in any order
\* and any number of times, changes the pack table, the prefix table or the
\* collision ledger
C22_TablesReadOnly ==
    [][ _discovered =>
          /\ _packs' = _packs
          /\ _prefixes' = _prefixes
          /\ _collisions' = _collisions ]_vars

\* a query ran on a discovered registry whose tables hold two packs, a ledger
\* entry and an applied override
C22_Witness ==
    /\ Done
    /\ result.op = "list_resources"
    /\ result.out.kind = "ok"
    /\ Len(_packs) = 2
    /\ _collisions /= EmptyDict
    /\ \E k \in 1..Len(_prefix_map) : _prefix_map[k][2] \in PackKeys(_packs)
    /\ enumerations = 1
    /\ _packs = FirstPass.packs
    /\ _prefixes = FirstPass.prefixes
    /\ _collisions = FirstPass.collisions

----------------------------------------------------------------------------
(* C23 *)

\* C23: for a name whose prefix part holds no '/', _resolve_name fails with
\* AmbiguousPrefix exactly when the lowercased prefix is a key of the collision
\* ledger, whether or not the prefix table has an owner for it; it succeeds, with
\* the qualified name the prefix table maps the prefix to, exactly when the prefix
\* is a key of the prefix table and not of the ledger; and it fails with
\* UnknownPrefix exactly when it is a key of neither.  A prefix part that holds a
\* '/' gives success or UnknownQualifiedPack, nothing else
C23_PrefixClassification ==
    /\ result.op = "_resolve_name" => result.out = Res(result.name)
    /\ \A pp \in PrefixParts : \A r \in ResourceNames :
          LET out == Res(Prefixed(pp, r))
              x   == Lower(pp)
          IN  IF Contains(pp, "/")
              THEN out.kind \in {"ok", "UnknownQualifiedPack"}
              ELSE /\ out.kind \in {"ok", "AmbiguousPrefix", "UnknownPrefix"}
                   /\ out.kind = "AmbiguousPrefix" <=> x \in DOMAIN _collisions
                   /\ out.kind = "ok" <=>
                         (x \in DOMAIN _prefixes /\ x \notin DOMAIN _collisions)
                   /\ out.kind = "ok" => out.pack = _prefixes[x]
                   /\ out.kind = "UnknownPrefix" <=>
                         (x \notin DOMAIN _prefixes /\ x \notin DOMAIN _collisions)

\* 'p:r' was refused as ambiguous although the prefix table has an owner for p,
\* while on the same tables another short prefix resolves and a third is unknown
C23_Witness ==
    /\ Done
    /\ result.op = "_resolve_name"
    /\ result.name = <<"p", ":", "r">>
    /\ result.out.kind = "AmbiguousPrefix"
    /\ <<"p">> \in DOMAIN _prefixes
    /\ \E pp \in PrefixParts : ~Contains(pp, "/") /\ Res(Prefixed(pp, <<"r">>)).kind = "ok"
    /\ \E pp \in PrefixParts : Res(Prefixed(pp, <<"r">>)).kind = "UnknownPrefix"

----------------------------------------------------------------------------
(* C24 *)

\* prefix parts with and without colons of their own, and what may follow the
\* last colon
ColonPrefixes ==
    { <<"p">>, <<"a", "/", "p">>, <<"x", ":", "x">>, <<"p", ":", "r">>,
      <<"a", "/", "p", ":", "r">>, <<":">> }
Suffixes == ResourceNames \cup { <<>> }

\* C24: for a name with at least one colon, the prefix part is everything before
\* the last colon and the resource name everything after it: the prefix part alone
\* selects the outcome, and on success the resource name returned is that suffix
C24_LastColonSplit ==
    /\ ( result.op = "_resolve_name" /\ Contains(result.name, ":") ) =>
          /\ result.out.resource = RSplit(result.name)[2]
          /\ ~Contains(result.out.resource, ":")
          /\ result.name = Prefixed(RSplit(result.name)[1], result.out.resource)
    /\ \A pp \in ColonPrefixes : \A r \in Suffixes :
          LET out == Res(Prefixed(pp, r))
              x   == Lower(pp)
          IN  /\ out.resource = r
              /\ IF Contains(pp, "/")
                 THEN /\ out.kind = "ok" <=> x \in PackKeys(_packs)
                      /\ out.kind = "ok" => out.pack = x
                 ELSE /\ out.kind = "ok" <=>
                            (x \in DOMAIN _prefixes /\ x \notin DOMAIN _collisions)
                      /\ out.kind = "ok" => out.pack = _prefixes[x]

\* 'x:x:r' resolved through the prefix 'x:x' to the resource 'r', on tables where
\* 'x' alone is a prefix too, and 'p:r:s' was not taken for a name of the prefix p
C24_Witness ==
    /\ Done
    /\ result.op = "_resolve_name"
    /\ result.name = <<"x", ":", "x", ":", "r">>
    /\ result.out.kind = "ok"
    /\ result.out.resource = <<"r">>
    /\ <<"x">> \in DOMAIN _prefixes
    /\ <<"p">> \in DOMAIN _prefixes /\ <<"p">> \notin DOMAIN _collisions
    /\ Res(<<"p", ":", "r", ":", "s">>).kind = "UnknownPrefix"

----------------------------------------------------------------------------
(* C25 *)

\* the characters that differ from c in case at most
SameLetter(c) ==
    { d \in {"B", "P", "Q", "X", "b", "p", "q", "x", c} : LowerChar(d) = LowerChar(c) }

\* the strings that differ from s in case at most
RECURSIVE CaseVariants(_)
CaseVariants(s) ==
    IF s = <<>> THEN { <<>> }
    ELSE { <<c>> \o t : c \in SameLetter(Head(s)), t \in CaseVariants(Tail(s)) }

\* the prefix parts whose case is varied: pack names, declared and prefix-map
\* aliases, an unknown prefix, qualified names
CasedPrefixes ==
    { <<"p">>, <<"q">>, <<"x">>, <<"z">>,
      <<"a", "/", "p">>, <<"B", "/", "p">>, <<"a", "/", "Q">> }

\* resource names in both cases
CasedResources == { <<"X">>, <<"x">> }

\* C25: replacing the prefix part of a name by a case variant of it gives the same
\* outcome of _resolve_name, the same qualified name or the same kind of failure,
\* whether the prefix is a pack name, a declared alias, a prefix-map alias or a
\* qualified name; the resource name is returned as written
C25_PrefixCaseInsensitive ==
    /\ ( result.op = "_resolve_name" /\ Contains(result.name, ":") ) =>
          \A v \in CaseVariants(RSplit(result.name)[1]) :
              Res(Prefixed(v, RSplit(result.name)[2])) = result.out
    /\ \A pp \in CasedPrefixes : \A v \in CaseVariants(pp) : \A r \in CasedResources :
          LET o == Res(Prefixed(v, r))
          IN  /\ o = Res(Prefixed(pp, r))
              /\ o.resource = r

\* 'X:r' resolved through the prefix-map alias X as 'x:r' does, on tables where
\* the pack name Q and q, the declared alias P and p, and the qualified name a/P
\* and a/p resolve alike
C25_Witness ==
    /\ Done
    /\ result.op = "_resolve_name"
    /\ result.name = <<"X", ":", "r">>
    /\ result.out.kind = "ok"
    /\ LastApplied(<<"x">>) = result.out.pack
    /\ Res(<<"x", ":", "r">>).pack = result.out.pack
    /\ Res(<<"Q", ":", "x">>).kind = "ok" /\ Res(<<"q", ":", "x">>).kind = "ok"
    /\ Res(<<"a", "/", "P", ":", "X">>).kind = "ok"
    /\ Res(<<"a", "/", "p", ":", "X">>).kind = "ok"
    /\ Res(<<"a", "/", "p", ":", "X">>).resource = <<"X">>
    /\ \E i \in 1..Len(_packs) : \E k \in 1..Len(_packs[i].aliases) :
          Lower(_packs[i].aliases[k]) /= _packs[i].aliases[k]

----------------------------------------------------------------------------
(* C26 *)

\* C26: every value of the prefix table and every name in every ledger list is a
\* key of the pack table; every pair _resolve_name returns carries a key of the
\* pack table; and get_resource never fails on the lookup self._packs[qualified_name]
C26_ReferentialIntegrity ==
    /\ \A x \in DOMAIN _prefixes : _prefixes[x] \in PackKeys(_packs)
    /\ \A x \in DOMAIN _collisions : Elements(_collisions[x]) \subseteq PackKeys(_packs)
    /\ \A n \in Names : Res(n).kind = "ok" => Res(n).pack \in PackKeys(_packs)
    /\ ( result.op = "_resolve_name" /\ result.out.kind = "ok" )
          => result.out.pack \in PackKeys(_packs)
    /\ result.op = "get_resource" => result.out.kind \in
          {"content", "NotFound", "AmbiguousPrefix", "UnknownPrefix",
           "UnknownQualifiedPack", "ResourceNotFound"}

\* get_resource('x:r') was served by the pack that declares the alias x, on a
\* registry whose prefix map names, for that alias, a pack that is not registered
C26_Witness ==
    /\ Done
    /\ result.op = "get_resource"
    /\ result.name = <<"x", ":", "r">>
    /\ result.out.kind = "content"
    /\ \E k \in 1..Len(_prefix_map) :
          /\ Lower(_prefix_map[k][1]) = <<"x">>
          /\ _prefix_map[k][2] \notin PackKeys(_packs)

----------------------------------------------------------------------------
(* C27 *)

\* C27: every entry of the collision ledger lists at least two qualified names and
\* lists none twice
C27_LedgerWellFormed ==
    \A x \in DOMAIN _collisions :
        /\ Len(_collisions[x]) >= 2
        /\ \A i, j \in 1..Len(_collisions[x]) :
              i /= j => _collisions[x][i] /= _collisions[x][j]

----------------------------------------------------------------------------
(* C28 *)

\* the registered packs that registered prefix x: by pack name, by a declared
\* alias, or as their own qualified name in lower case
Contenders(x) == Claimants(x) \cup { q \in PackKeys(_packs) : Lower(q) = x }

\* the contender for prefix x that discover() processed first: the pack table
\* keeps the packs in the order they were processed
FirstClaimant(x) ==
    LET claiming == { i \in 1..Len(_packs) : qualified_name(_packs[i]) \in Contenders(x) }
    IN  qualified_name(_packs[CHOOSE i \in claiming : \A j \in claiming : i <= j])

\* C28 as claimed: after discovery, every prefix of the collision ledger that no
\* applied prefix-map entry overrides is owned, in the prefix table, by the first
\* name of its ledger list, which is the claimant processed first
C28_OwnerIsFirstContender ==
    Done =>
        \A x \in DOMAIN _collisions :
            LastApplied(x) = None =>
                /\ x \in DOMAIN _prefixes
                /\ _prefixes[x] = _collisions[x][1]
                /\ _collisions[x][1] = FirstClaimant(x)

\* C28, amended: after discovery, every prefix of the collision ledger that holds
\* no "/" and that no applied prefix-map entry overrides is owned, in the prefix
\* table, by the first name of its ledger list, which is the claimant processed
\* first.  (A ledger prefix that is a later pack's qualified name in lower case is
\* handed to that pack when it is processed, whatever the ledger holds.)
C28_ShortOwnerIsFirstContender ==
    Done =>
        \A x \in DOMAIN _collisions :
            (~Contains(x, "/") /\ LastApplied(x) = None) =>
                /\ x \in DOMAIN _prefixes
                /\ _prefixes[x] = _collisions[x][1]
                /\ _collisions[x][1] = FirstClaimant(x)

\* two packs contend for p and for x: p is owned by the first name of its ledger
\* list, and x, which a prefix-map entry overrides, is owned by the other pack
C28_Witness ==
    /\ Done
    /\ result.op = "get_prefix_collisions"
    /\ <<"p">> \in DOMAIN _collisions
    /\ Len(_collisions[<<"p">>]) = 2
    /\ LastApplied(<<"p">>) = None
    /\ _prefixes[<<"p">>] = _collisions[<<"p">>][1]
    /\ <<"x">> \in DOMAIN _collisions
    /\ LastApplied(<<"x">>) /= None
    /\ _prefixes[<<"x">>] /= _collisions[<<"x">>][1]

----------------------------------------------------------------------------
(* C29 *)

\* the local list "packs" of discover() after packs.sort(...)
Processing == SortPacks(CollectPacks(entry_points, _blocklist))

\* the tables when the first k packs of the list have been processed
TablesAfter(k) == ProcessPacks(NoTables, SubSeq(Processing, 1, k))

\* the tables at the call of _register_prefix for the j-th prefix of the k-th pack
TablesAtCall(k, j) ==
    LET e  == Processing[k]
        q  == EntryQualified(e)
        t0 == TablesAfter(k - 1)
        t1 == [t0 EXCEPT !.packs = PackPut(@, q, RegisteredPack(e.dist_name, e.pack_name,
                                                              e.pack, e.aliases)),
                         !.prefixes = Put(@, Lower(q), q)]
    IN  RegisterAliases(t1, SubSeq(Registrations(e), 1, j - 1), q, e.pack.priority)

\* the condition of the branch "if priority > existing_priority" of _register_prefix
TakesOver(tab, prefix, priority) ==
    /\ prefix \in DOMAIN tab.prefixes
    /\ tab.prefixes[prefix] \in PackKeys(tab.packs)
    /\ priority > PackAt(tab.packs, tab.prefixes[prefix]).pack.priority

\* C29: the packs are processed in non-increasing priority order, and therefore no
\* call of _register_prefix made by discover() takes the branch in which the
\* claimant outranks the owner; a short prefix, once claimed, keeps its owner
\* until the override step and a ledger list never loses a name; the tables the
\* registry holds are those this processing and the overrides give
C29_OwnerStableWhileProcessing ==
    Done =>
        /\ \A k \in 1..(Len(Processing) - 1) :
              Processing[k].pack.priority >= Processing[k + 1].pack.priority
        /\ \A k \in 1..Len(Processing) : \A j \in 1..Len(Registrations(Processing[k])) :
              ~TakesOver(TablesAtCall(k, j), Registrations(Processing[k])[j],
                         Processing[k].pack.priority)
        /\ \A k \in 1..Len(Processing) :
              /\ \A x \in DOMAIN TablesAfter(k - 1).prefixes :
                    ~Contains(x, "/") =>
                        TablesAfter(k).prefixes[x] = TablesAfter(k - 1).prefixes[x]
              /\ \A x \in DOMAIN TablesAfter(k - 1).collisions :
                    /\ x \in DOMAIN TablesAfter(k).collisions
                    /\ Elements(TablesAfter(k - 1).collisions[x])
                          \subseteq Elements(TablesAfter(k).collisions[x])
        /\ LET t == ApplyOverrides(TablesAfter(Len(Processing)), _prefix_map)
           IN  /\ ~t.raised
               /\ _packs = t.packs
               /\ _prefixes = t.prefixes
               /\ _collisions = t.collisions

\* two packs of different priorities claim the same short prefix, the adapter
\* enumerated the lower one first, and the prefix belongs to the higher one, which
\* was processed first
C29_Witness ==
    /\ Done
    /\ result.op = "discover"
    /\ Len(entry_points) = 2
    /\ Len(_packs) = 2
    /\ entry_points[1].pack.priority < entry_points[2].pack.priority
    /\ \E x \in ShortPrefixes :
          /\ Cardinality(Claimants(x)) = 2
          /\ LastApplied(x) = None
          /\ _prefixes[x] = EntryQualified(entry_points[2])
          /\ qualified_name(_packs[1]) = EntryQualified(entry_points[2])

----------------------------------------------------------------------------
(* C30 *)

\* the short prefixes given to both operations
ShortFilters == { <<"p">>, <<"P">>, <<"x">>, <<"X">>, <<"q">>, <<"z">> }

\* what list_resources(pack = f) yields on the tables as they stand
Listed(f) == ListInfos(_packs, _prefixes, f)

\* C30: for a short prefix p, when list_resources(pack = p) yields a resource
\* attributed to pack q then _resolve_name(p + ':' + r) returns (q, r), and when
\* _resolve_name(p + ':' + r) fails, the prefix being unknown or ambiguous, then
\* list_resources(pack = p) yields nothing
C30_ListAndResolveAgree ==
    /\ ( result.op = "list_resources" /\ result.out.kind = "ok"
         /\ result.filter \in ShortFilters ) =>
          \A k \in 1..Len(result.out.value) : \A r \in ResourceNames :
              Res(Prefixed(result.filter, r)) = Resolved(result.out.value[k].pack, r, 0)
    /\ Done =>
          \A f \in ShortFilters : \A r \in ResourceNames :
              LET out == Res(Prefixed(f, r))
              IN  /\ \A k \in 1..Len(Listed(f)) :
                        /\ out.kind = "ok"
                        /\ out.pack = Listed(f)[k].pack
                        /\ out.resource = r
                  /\ out.kind /= "ok" => Listed(f) = <<>>

====
